---- MODULE Spec2Model ----
(***************************************************************************)
(* Model of the slicken/history store (History), its bar series (Bars),    *)
(* the update loop and the portfolio manager.  Times are counted in        *)
(* minutes; a bar is its open time plus one payload value standing for     *)
(* its OHLCV fields.                                                       *)
(***************************************************************************)
EXTENDS Integers, Sequences, FiniteSets, Bags, TLC

\* ------------------------------------------------------------------------
\* Bounds
\* ------------------------------------------------------------------------
MergeMaxT == 4          \* bar times of the merge inputs are 1..MergeMaxT
MaxT == 3               \* bar times handed to the store are 1..MaxT
MaxNow == 5             \* the clock runs from NowStart to MaxNow
MaxLoops == 1           \* Update calls whose goroutine is still alive
MaxPending == 1         \* a cycle starts while fewer downloads than this are pending
MaxTrades == 1          \* positions closed
TestMaxT == 4           \* bar times of the series under test are 1..TestMaxT
MaxPumps == 2           \* goroutines spawned by Start that have not returned
MaxHandled == 2         \* calls of Handle
EvMaxT == 2             \* event times are 1..EvMaxT
MaxEvents == 2          \* events in a list handed to Add, Find or Sort
MaxSubs == 2            \* callbacks subscribed for one event type

\* ------------------------------------------------------------------------
\* Program constants
\* ------------------------------------------------------------------------
mindur == 1             \* one minute, the default period
DefaultMaxLimit == 1000 \* maxlimit before SetMaxLimit

\* the clock when the program starts: one minute after the newest bar time
NowStart == MaxT + 1

VARIABLES
    mOld, mNew, mOut, mPc,     \* merge harness: inputs, result, position
    bars,                      \* History.bars: symbol -> slice (bars, cap)
    C,                         \* History.C: buffered channel (cap, queue)
    db,                        \* the bars table: symbol -> persisted series
    mu,                        \* History.RWMutex: "unlocked" or its holder
    snap,                      \* a slice a caller got from GetBars
    mref,                      \* a map a caller got from Map
    lt,                        \* the LimitTime call in progress: its range and goroutines
    update,                    \* History.update
    maxlimit,                  \* the package variable maxlimit
    now,                       \* time.Now(), in minutes
    loops,                     \* the goroutine and the done flag of each Update call
    dl,                        \* bag of download goroutines started and not yet run
    Balance,                   \* PortfolioManager.Balance
    Positions,                 \* PortfolioManager.Positions: symbol -> Position
    Stats,                     \* PortfolioManager.Stats
    strat,                     \* BaseStrategy: the symbol, time and price of its context
    tPc,                       \* Tester.Test: its position
    tWin,                      \* Tester.Test: start and end
    tSymbols,                  \* Tester.Test: symbols, the part not yet tested
    tSymbol,                   \* Tester.Test: symbol
    barChan,                   \* Tester.Test: the bars the stream has yet to deliver
    currentBars,               \* Tester.Test: currentBars
    tCalls,                    \* the OnBar calls Test has made
    tEvents,                   \* Tester.events
    ehmu,                      \* EventHandler.RWMutex: "nil" or "set"
    running,                   \* EventHandler.running
    strategies,                \* EventHandler.strategies
    pumps,                     \* the goroutines Start has spawned
    events,                    \* the Events that Start was given
    handled,                   \* the events Handle was called with
    crashed,                   \* "" or the call whose panic ended the program
    handlers,                  \* EventHandler.handlers: event type -> callbacks (slice, cap)
    hcall,                     \* the Handle call in progress
    ehCall,                    \* the last call of Start or Stop and how it ended
    drain,                     \* EventHandler.Start: its position in the loop that drains hist.C
    eArg,                      \* Events harness: the argument of the call
    eRet,                      \* Events harness: what the call returned
    ePc,                       \* Events harness: the call made
    aRet,                      \* what the last call of History.Add was given and returned
    logged,                    \* the symbols the update loop has logged a failed download of
    sRet                       \* the event the last call of BuyEvent or SellEvent returned

mergeVars == <<mOld, mNew, mOut, mPc>>
storeVars == <<bars, C, db, mu, snap, mref, lt>>
histVars == <<bars, db, mu, snap, mref, lt>>
updVars == <<update, maxlimit, now, loops, dl>>
pfVars == <<Balance, Positions, Stats, strat>>
testVars == <<tPc, tWin, tSymbols, tSymbol, barChan, currentBars, tCalls, tEvents>>
ehVars == <<ehmu, running, strategies, pumps, events, handled, crashed,
           handlers, hcall, ehCall, drain>>
evVars == <<eArg, eRet, ePc>>
callVars == <<aRet, logged, sRet>>
vars == <<mOld, mNew, mOut, mPc, bars, C, db, mu, snap, mref, lt,
          update, maxlimit, now, loops, dl, Balance, Positions, Stats, strat,
          tPc, tWin, tSymbols, tSymbol, barChan, currentBars, tCalls, tEvents,
          ehmu, running, strategies, pumps, events, handled, crashed,
          handlers, hcall, ehCall, drain,
          eArg, eRet, ePc, aRet, logged, sRet>>

\* ------------------------------------------------------------------------
\* Bar and Bars
\* ------------------------------------------------------------------------
Vals == {0, 1}

ZeroBar == [t |-> 0, v |-> 0]

MkBar(time, val) == [t |-> time, v |-> val]

Range(s) == {s[i] : i \in 1..Len(s)}

Times(s) == {s[i].t : i \in 1..Len(s)}

\* strictly descending in time: what the downloader and the database return
IsDesc(s) == \A i \in 1..(Len(s) - 1) : s[i].t > s[i + 1].t

RECURSIVE DescSeqs(_, _)
\* every strictly descending series over the times 1..maxT with values in vs
DescSeqs(maxT, vs) ==
    IF maxT = 0 THEN {<<>>}
    ELSE LET rest == DescSeqs(maxT - 1, vs)
         IN  rest \cup {<<MkBar(maxT, x)>> \o s : x \in vs, s \in rest}

RECURSIVE InsertDesc(_, _)
\* insert b behind every element whose time is >= b.t (stable)
InsertDesc(b, s) ==
    IF s = <<>> THEN <<b>>
    ELSE IF Head(s).t >= b.t THEN <<Head(s)>> \o InsertDesc(b, Tail(s))
    ELSE <<b>> \o s

RECURSIVE Sort(_)
Sort(s) ==
    IF s = <<>> THEN <<>>
    ELSE InsertDesc(s[Len(s)], Sort(SubSeq(s, 1, Len(s) - 1)))

Period(s) == IF 2 > Len(s) THEN mindur ELSE s[1].t - s[2].t

FirstBar(s) == IF 1 > Len(s) THEN ZeroBar ELSE s[Len(s)]

LastBar(s) == IF 1 > Len(s) THEN ZeroBar ELSE s[1]

RECURSIVE Filter(_, _, _)
Filter(s, start, end) ==
    IF s = <<>> THEN <<>>
    ELSE IF Head(s).t > start /\ Head(s).t < end
         THEN <<Head(s)>> \o Filter(Tail(s), start, end)
         ELSE Filter(Tail(s), start, end)

TimeSpan(s, start, end) == Sort(Filter(s, start, end))

RECURSIVE Outside(_, _, _)
\* the bars of new that merge appends: after last or before first
Outside(new, first, last) ==
    IF new = <<>> THEN <<>>
    ELSE IF Head(new).t > last \/ Head(new).t < first
         THEN <<Head(new)>> \o Outside(Tail(new), first, last)
         ELSE Outside(Tail(new), first, last)

\* merge that leaves the appended bars where append put them
mergeNoSort(old, new) ==
    IF Len(old) = 0 THEN new
    ELSE old \o Outside(new, FirstBar(old).t, LastBar(old).t)

\* merge that also appends a new bar at the time of old's newest bar
mergeTies(old, new) ==
    IF Len(old) = 0 THEN new
    ELSE LET keep(b) == b.t >= LastBar(old).t \/ b.t < FirstBar(old).t
         IN  Sort(old \o SelectSeq(new, keep))

merge(old, new) ==
    IF Len(old) = 0 THEN new
    ELSE Sort(old \o Outside(new, FirstBar(old).t, LastBar(old).t))

\* ------------------------------------------------------------------------
\* History: the store
\* ------------------------------------------------------------------------
Keys == {<<"A", "1m">>, <<"B", "1m">>}

\* the key of the specifications that follow one series
TheKey == <<"A", "1m">>

\* what Unload accepts: a key, or a pair without a timeframe
Symbols == Keys \cup {<<"A", "">>}

SplitSymbol(sym) == [pair |-> sym[1], tf |-> sym[2]]

StoreVals == {0}

\* the series callers, the database and the downloader hand to the store
InSeries == DescSeqs(MaxT, StoreVals)

\* the second key is only ever handed this one series
OtherSeries == {<<MkBar(3, 0), MkBar(2, 0)>>}

AddInputs(k) == IF k = <<"A", "1m">> THEN InSeries ELSE OtherSeries

\* the (start, end) pairs of LimitTime: drop the newest bar, drop the oldest
Windows == {<<0, MaxT>>, <<1, MaxT + 1>>}

Entry(s, c) == [b |-> s, cap |-> c]

NilBars == Entry(<<>>, 0)

Put(m, k, v) == [x \in DOMAIN m \cup {k} |-> IF x = k THEN v ELSE m[x]]

Del(m, ks) == [x \in DOMAIN m \ ks |-> m[x]]

EmptyMap == [x \in {} |-> NilBars]

NoLimitTime == [w |-> <<0, 0>>, todo |-> {}, run |-> {}]

NoLoop == [pc |-> "none", done |-> FALSE, ret |-> FALSE]

NoSnap == [st |-> "none", k |-> <<>>, view |-> <<>>]

\* capacity after append has grown a full slice of capacity c by one
GrowCap(c) == IF c = 0 THEN 1 ELSE 2 * c

RECURSIVE AppendCap(_, _)
\* capacity of a slice of capacity c once it holds n elements appended one by one
AppendCap(c, n) == IF n <= c THEN c ELSE AppendCap(GrowCap(c), n)

\* what a slice of length Len(view) sees of an array whose first elements are now arr
InPlaceView(view, arr) ==
    [i \in 1..Len(view) |-> IF i <= Len(arr) THEN arr[i] ELSE view[i]]

\* merge on slices: the result, its capacity, whether it still is old's array,
\* and what merge wrote into old's array
mergeSlice(old, new, newcap) ==
    IF Len(old.b) = 0
    THEN [b |-> new, cap |-> newcap, shared |-> FALSE, arr |-> <<>>]
    ELSE LET app  == Outside(new, FirstBar(old.b).t, LastBar(old.b).t)
             room == old.cap - Len(old.b)
         IN  IF Len(app) <= room
             THEN [b |-> merge(old.b, new), cap |-> old.cap, shared |-> TRUE,
                   arr |-> merge(old.b, new)]
             ELSE [b |-> merge(old.b, new),
                   cap |-> AppendCap(old.cap, Len(old.b) + Len(app)),
                   shared |-> FALSE,
                   arr |-> old.b \o SubSeq(app, 1, room)]

ReadBars(symbol) == db[symbol]

\* WriteBars that replaces the persisted series instead of merging into it
WriteBarsReplace(symbol, s) == [db EXCEPT ![symbol] = s]

\* the table after WriteBars(symbol, s)
WriteBars(symbol, s) ==
    IF LastBar(s) = LastBar(ReadBars(symbol)) THEN db
    ELSE [db EXCEPT ![symbol] = merge(ReadBars(symbol), s)]

\* non-blocking send
Send(ch, v) == IF Len(ch.q) < ch.cap THEN [ch EXCEPT !.q = Append(@, v)] ELSE ch

\* the snapshot after the slice stored for symbol was merged into (m) and
\* possibly dropped or replaced
SnapMerged(symbol, m, dropped) ==
    IF snap.st = "live" /\ snap.k = symbol
    THEN [st   |-> IF m.shared /\ ~dropped THEN "live" ELSE "frozen",
          k    |-> symbol,
          view |-> InPlaceView(snap.view, m.arr)]
    ELSE snap

\* the snapshot after the slices stored for the symbols in ks were replaced
SnapDetached(ks) ==
    IF snap.st = "live" /\ snap.k \in ks THEN [snap EXCEPT !.st = "frozen"] ELSE snap

\* the test with the whole series compared
NoNewBarsWhole(b, s) == b = s

\* "nothing new": as many bars as are stored, and the same newest bar
NoNewBars(b, s) == Len(b) = Len(s) /\ LastBar(b) = LastBar(s)

\* the state Add(symbol, s) leaves behind, and its error
AddResult(symbol, s, scap) ==
    LET ok        == symbol \in DOMAIN bars
        b         == IF ok THEN bars[symbol] ELSE NilBars
        installed == IF ok THEN bars ELSE Put(bars, symbol, Entry(s, scap))
        n         == Cardinality(DOMAIN installed)
        noNew     == ok /\ NoNewBars(b.b, s)
        C1        == IF ok THEN C ELSE [cap |-> n, q |-> C.q]
        db1       == IF ok THEN WriteBars(symbol, s) ELSE db
        m         == mergeSlice(b, s, scap)
        merged    == Put(installed, symbol, Entry(m.b, m.cap))
        mref1     == IF mref = "live" /\ DOMAIN bars = {} THEN "stale" ELSE mref
    IN  CASE ~ok /\ Len(C.q) > n ->
               [bars |-> installed, db |-> db, mu |-> "Add", snap |-> snap,
                C |-> [cap |-> C.cap, q |-> SubSeq(C.q, n + 2, Len(C.q))],
                mref |-> mref1, err |-> "blocked"]
          [] noNew ->
               [bars |-> bars, db |-> db, mu |-> mu, snap |-> snap, C |-> C,
                mref |-> mref1, err |-> "no new bars"]
          [] ~noNew /\ Len(s) = 0 ->
               [bars |-> installed, db |-> db1, mu |-> mu, snap |-> snap,
                C |-> C1, mref |-> mref1, err |-> "nil"]
          [] ~noNew /\ Len(s) > 0 /\ 2 > Len(m.b) ->
               [bars |-> Del(merged, {symbol}), db |-> db1, mu |-> mu,
                snap |-> SnapMerged(symbol, m, TRUE),
                C |-> C1, mref |-> mref1, err |-> "history to short"]
          [] OTHER ->
               [bars |-> merged, db |-> db1, mu |-> mu,
                snap |-> SnapMerged(symbol, m, FALSE),
                C |-> Send(C1, symbol), mref |-> mref1, err |-> "nil"]

ApplyAdd(r) ==
    /\ bars' = r.bars
    /\ C' = r.C
    /\ db' = r.db
    /\ mu' = r.mu
    /\ snap' = r.snap
    /\ mref' = r.mref

Add(symbol, s) ==
    /\ mu = "unlocked"
    /\ ApplyAdd(AddResult(symbol, s, Len(s)))
    /\ UNCHANGED lt

\* no call of Add made yet
NoAdd == [symbol |-> <<"", "">>, new |-> <<>>, err |-> ""]

\* err := h.Add(symbol, s): the caller keeps what Add returned; a call that
\* blocks has returned nothing
CallAdd(symbol, s) ==
    /\ Add(symbol, s)
    /\ aRet' = [symbol |-> symbol, new |-> s, err |-> AddResult(symbol, s, Len(s)).err]
    /\ UNCHANGED <<logged, sRet>>

\* one goroutine of Load: ReadBars, then Add whatever was read
Load(symbol) ==
    /\ mu = "unlocked"
    /\ ApplyAdd(AddResult(symbol, ReadBars(symbol), AppendCap(0, Len(ReadBars(symbol)))))
    /\ UNCHANGED lt

Unload(symbol) ==
    /\ mu = "unlocked"
    /\ LET gone == IF SplitSymbol(symbol).tf = ""
                   THEN {k \in DOMAIN bars : SplitSymbol(k).pair = SplitSymbol(symbol).pair}
                   ELSE {symbol} \cap DOMAIN bars
       IN  /\ bars' = Del(bars, gone)
           /\ snap' = SnapDetached(gone)
    /\ UNCHANGED <<C, db, mu, mref, lt>>

Limit(length) ==
    /\ mu = "unlocked"
    /\ bars' = [k \in DOMAIN bars |->
                  IF length >= Len(bars[k].b) THEN bars[k]
                  ELSE Entry(SubSeq(bars[k].b, 1, length), bars[k].cap)]
    /\ UNCHANGED <<C, db, mu, snap, mref, lt>>

\* LimitTime up to the first iteration of its range over h.bars, which it
\* makes without the lock: one goroutine is started, the other keys are to come
LimitTime(start, end) ==
    /\ lt = NoLimitTime
    /\ \E k \in DOMAIN bars :
          lt' = [w |-> <<start, end>>, todo |-> DOMAIN bars \ {k}, run |-> {k}]
    /\ UNCHANGED <<bars, C, db, mu, snap, mref>>

\* the next iteration of the range: a key deleted meanwhile is not produced
LimitTimeRange(k) ==
    /\ k \in lt.todo
    /\ lt' = [lt EXCEPT !.todo = @ \ {k},
                        !.run = IF k \in DOMAIN bars THEN @ \cup {k} ELSE @]
    /\ UNCHANGED <<bars, C, db, mu, snap, mref>>

\* one goroutine of LimitTime: h.bars[sym] = h.bars[sym].TimeSpan(start, end)
LimitTimeSym(sym) ==
    /\ mu = "unlocked"
    /\ sym \in lt.run
    /\ LET old  == IF sym \in DOMAIN bars THEN bars[sym].b ELSE <<>>
           span == TimeSpan(old, lt.w[1], lt.w[2])
       IN  bars' = Put(bars, sym, Entry(span, AppendCap(0, Len(span))))
    /\ snap' = SnapDetached({sym})
    /\ lt' = IF lt.todo = {} /\ lt.run = {sym} THEN NoLimitTime
             ELSE [lt EXCEPT !.run = @ \ {sym}]
    /\ UNCHANGED <<C, db, mu, mref>>

\* GetBars hands out the stored slice itself
GetBars(symbol) ==
    /\ mu = "unlocked"
    /\ snap.st = "none"
    /\ snap' = IF symbol \in DOMAIN bars
               THEN [st |-> "live", k |-> symbol, view |-> bars[symbol].b]
               ELSE [st |-> "frozen", k |-> symbol, view |-> <<>>]
    /\ UNCHANGED <<bars, C, db, mu, mref, lt>>

\* Map hands out h.bars itself, without the lock
Map ==
    /\ mref = "none"
    /\ mref' = "live"
    /\ UNCHANGED <<bars, C, db, mu, snap, lt>>

\* a consumer of History.C takes the oldest token
Recv ==
    /\ Len(C.q) > 0
    /\ C' = [C EXCEPT !.q = Tail(@)]
    /\ UNCHANGED <<bars, db, mu, snap, mref, lt>>

\* the slice seen through the value GetBars returned
SnapView == snap.view

\* the map seen through the value Map returned
MapView == IF mref = "live" THEN [k \in DOMAIN bars |-> bars[k].b] ELSE [k \in {} |-> <<>>]

\* ------------------------------------------------------------------------
\* PortfolioManager and BaseStrategy
\* ------------------------------------------------------------------------
\* Money is float64 in the program. The prices and sizes below make every
\* amount the program computes a whole number, which float64 holds exactly;
\* the two ratios (WinRate, MaxDrawdown) are kept as <<numerator, denominator>>.
PfSymbols == {"A"}

Prices == {100, 110}

Sizes == {2000}

\* scaleFactor == Size / ScaleBase
ScaleBase == 10000

Scaled(diff, size) == (diff * size) \div ScaleBase

\* Position.UnrealizedPnL
UnrealizedPnL(p) ==
    IF p.Side THEN Scaled(p.Current - p.EntryPrice, p.Size)
    ELSE Scaled(p.EntryPrice - p.Current, p.Size)

RECURSIVE SumUnrealized(_, _)
SumUnrealized(ps, syms) ==
    IF syms = {} THEN 0
    ELSE LET x == CHOOSE y \in syms : TRUE
         IN  UnrealizedPnL(ps[x]) + SumUnrealized(ps, syms \ {x})

\* a / b > c / d, with b and d positive
RatioGreater(r, q) == r[1] * q[2] > q[1] * r[2]

\* PortfolioManager.updateStats on balance bal, positions ps and statistics st
updateStats(bal, ps, st) ==
    LET unrealizedPnL == SumUnrealized(ps, DOMAIN ps)
        current == bal + unrealizedPnL
        hwm == IF current > st.HighWaterMark THEN current ELSE st.HighWaterMark
        currentDrawdown == IF hwm > 0 THEN <<hwm - current, hwm>> ELSE <<0, 1>>
    IN  [st EXCEPT
           !.UnrealizedPnL = unrealizedPnL,
           !.CurrentBalance = current,
           !.TotalPnL = st.RealizedPnL + unrealizedPnL,
           !.WinRate = IF st.TotalTrades > 0
                       THEN <<st.WinningTrades, st.TotalTrades>> ELSE @,
           !.HighWaterMark = hwm,
           !.MaxDrawdown = IF RatioGreater(currentDrawdown, @)
                           THEN currentDrawdown ELSE @]

InitialBalance == 10000

NoPositions == [x \in {} |-> 0]

\* the portfolio NewPortfolioManager returns
NewPortfolioManager ==
    /\ Balance = InitialBalance
    /\ Positions = NoPositions
    /\ Stats = [CurrentBalance |-> InitialBalance, TotalPnL |-> 0,
                UnrealizedPnL |-> 0, RealizedPnL |-> 0, TotalTrades |-> 0,
                WinningTrades |-> 0, LosingTrades |-> 0, WinRate |-> <<0, 1>>,
                MaxDrawdown |-> <<0, 1>>, HighWaterMark |-> InitialBalance]

\* NewBaseStrategy, its context already set once
NewBaseStrategy ==
    /\ NewPortfolioManager
    /\ strat = [symbol |-> "A", time |-> 0, price |-> 100]

SetContext(symbol, bar) ==
    /\ strat' = [symbol |-> symbol, time |-> bar.t, price |-> bar.v]
    /\ UNCHANGED <<Balance, Positions, Stats>>

UpdatePosition(symbol, currentPrice) ==
    /\ symbol \in DOMAIN Positions
    /\ LET pos == [Positions[symbol] EXCEPT !.Current = currentPrice]
           ps  == Put(Positions, symbol, [pos EXCEPT !.PnL = UnrealizedPnL(pos)])
       IN  /\ Positions' = ps
           /\ Stats' = updateStats(Balance, ps, Stats)
    /\ UNCHANGED <<Balance, strat>>

\* the position BuyEvent (long) and SellEvent (short) open
Opened(side, size, price) ==
    [Side |-> side, EntryPrice |-> price, Size |-> size, Current |-> price, PnL |-> 0]

OpenEvent(side, size, price) ==
    /\ IF Balance >= size
       THEN /\ Balance' = Balance - size
            /\ Positions' = Put(Positions, strat.symbol, Opened(side, size, price))
       ELSE UNCHANGED <<Balance, Positions>>
    /\ UNCHANGED <<Stats, strat>>

BuyEvent(size, price) == OpenEvent(TRUE, size, price)

\* no call of BuyEvent or SellEvent has returned
NoOrder == [Type |-> "", Price |-> 0, Size |-> 0]

\* BuyEvent as its caller sees it: the event it returns
CallBuyEvent(size, price) ==
    /\ BuyEvent(size, price)
    /\ sRet' = [Type |-> "MARKET_BUY", Price |-> price, Size |-> size]
    /\ UNCHANGED <<aRet, logged>>

SellEvent(size, price) == OpenEvent(FALSE, size, price)

\* SellEvent as its caller sees it: the event it returns
CallSellEvent(size, price) ==
    /\ SellEvent(size, price)
    /\ sRet' = [Type |-> "MARKET_SELL", Price |-> price, Size |-> size]
    /\ UNCHANGED <<aRet, logged>>

DefaultSize == 1000

Buy == BuyEvent(DefaultSize, strat.price)

Sell == SellEvent(DefaultSize, strat.price)

\* what ClosePosition(position, closePrice) returns
ClosePnL(position, closePrice) ==
    IF position.Side THEN Scaled(closePrice - position.EntryPrice, position.Size)
    ELSE Scaled(position.EntryPrice - closePrice, position.Size)

\* the statistics ClosePosition leaves, given the balance and positions it leaves
ClosedStats(pnl, bal, ps) ==
    updateStats(bal, ps,
        [Stats EXCEPT
           !.RealizedPnL = @ + pnl,
           !.TotalTrades = @ + 1,
           !.WinningTrades = IF pnl > 0 THEN @ + 1 ELSE @,
           !.LosingTrades = IF pnl < 0 THEN @ + 1 ELSE @])

\* PortfolioManager.ClosePosition on the open position of symbol
ClosePosition(symbol, closePrice) ==
    /\ symbol \in DOMAIN Positions
    /\ Stats.TotalTrades < MaxTrades
    /\ LET pnl == ClosePnL(Positions[symbol], closePrice)
           bal == Balance + Positions[symbol].Size + pnl
           ps  == Del(Positions, {symbol})
       IN  /\ Balance' = bal
           /\ Positions' = ps
           /\ Stats' = ClosedStats(pnl, bal, ps)
    /\ UNCHANGED strat

\* BaseStrategy.CloseEvent for an opening event of symbol
CloseEvent(symbol, closePrice) ==
    /\ Stats.TotalTrades < MaxTrades
    /\ IF symbol \in DOMAIN Positions
       THEN LET pnl == ClosePnL(Positions[symbol], closePrice)
                bal == Balance + Positions[symbol].Size + pnl
                ps  == Del(Positions, {symbol})
            IN  /\ Balance' = bal + pnl
                /\ Positions' = ps
                /\ Stats' = ClosedStats(pnl, bal, ps)
       ELSE UNCHANGED <<Balance, Positions, Stats>>
    /\ UNCHANGED strat

\* BaseStrategy.Close
Close ==
    IF strat.symbol \in DOMAIN Positions
    THEN CloseEvent(strat.symbol, strat.price)
    ELSE UNCHANGED pfVars

\* ------------------------------------------------------------------------
\* Event and Events
\* ------------------------------------------------------------------------
\* the empty symbol ""
NoSymbol == <<"", "">>

\* Event{}: MARKET_BUY is the zero EventType
ZeroEvent == [Symbol |-> NoSymbol, Name |-> "", Type |-> "MARKET_BUY", Time |-> 0, Price |-> 0]

\* the comparison Events.Add makes between the new event and a stored one
SameKey(a, b) ==
    a.Symbol = b.Symbol /\ a.Time = b.Time /\ a.Price = b.Price /\ a.Type = b.Type

\* Events.Add with the duplicate test of Events.Exists: time and price only
EventsAddByTime(evs, event) ==
    IF event.Symbol = NoSymbol \/ event.Price = 0
    THEN [ok |-> FALSE, events |-> evs]
    ELSE IF \E i \in 1..Len(evs) : event.Time = evs[i].Time /\ event.Price = evs[i].Price
         THEN [ok |-> FALSE, events |-> evs]
         ELSE [ok |-> TRUE, events |-> Append(evs, event)]

\* Events.Add: what it returns and the list it leaves
EventsAdd(evs, event) ==
    IF event.Symbol = NoSymbol \/ event.Price = 0
    THEN [ok |-> FALSE, events |-> evs]
    ELSE IF \E i \in 1..Len(evs) : SameKey(event, evs[i])
         THEN [ok |-> FALSE, events |-> evs]
         ELSE [ok |-> TRUE, events |-> Append(evs, event)]

\* BaseStrategy.Sit: an event built from the context
Sit(name) ==
    [Symbol |-> strat.symbol, Name |-> name, Type |-> "OTHER",
     Time |-> strat.time, Price |-> strat.price]

\* ------------------------------------------------------------------------
\* Bars.StreamInterval and Tester.Test
\* ------------------------------------------------------------------------
maxdur == 70560

\* Bars.Find: the bar at dt, or Bar{}
FindBar(s, dt) ==
    IF 1 > Len(s) THEN ZeroBar
    ELSE IF FirstBar(s).t > dt \/ LastBar(s).t < dt THEN ZeroBar
    ELSE IF \E i \in 1..Len(s) : s[i].t = dt
         THEN s[CHOOSE i \in 1..Len(s) : s[i].t = dt /\ \A j \in 1..(i - 1) : s[j].t # dt]
         ELSE ZeroBar

\* the bars the stream emits once its cursor stands at dt
RECURSIVE Emitted(_, _, _, _)
Emitted(s, dt, end, interval) ==
    IF dt < end
    THEN <<FindBar(s, dt + interval)>> \o Emitted(s, dt + interval, end, interval)
    ELSE <<>>

\* Bars.StreamInterval: everything the channel will deliver, oldest first
StreamInterval(s, start, end, interval) ==
    IF Len(s) = 0 THEN <<>>
    ELSE LET first == FirstBar(s).t
             last  == LastBar(s).t
             from  == IF first # 0 /\ (start = 0 \/ start < first) THEN first ELSE start
             to    == IF last # 0 /\ (end = 0 \/ end > last) THEN last ELSE end
             step  == IF interval < mindur THEN mindur
                      ELSE IF interval > maxdur THEN maxdur ELSE interval
         IN  Emitted(s, from, to, step)

\* NewTester for a strategy called "T"
NewTester ==
    /\ tPc = "idle"
    /\ tWin = <<0, 0>>
    /\ tSymbols = <<>>
    /\ tSymbol = NoSymbol
    /\ barChan = <<>>
    /\ currentBars = <<>>
    /\ tCalls = <<>>
    /\ tEvents = <<>>

\* every order in which ranging over a map with these keys may visit them
Orders(ks) ==
    {q \in [1..Cardinality(ks) -> ks] :
        \A i, j \in 1..Cardinality(ks) : i # j => q[i] # q[j]}

\* what the strategy's OnBar does: nothing, an event built by Sit, or a panic
OnBarOutcomes == {"none", "event", "panic"}

\* Tester.Test up to the loop over the symbols
Test(start, end) ==
    /\ tPc = "idle"
    /\ IF DOMAIN bars = {}
       THEN /\ tPc' = "nohistory"
            /\ UNCHANGED <<tWin, tSymbols>>
       ELSE /\ tPc' = "symbols"
            /\ tWin' = <<start, end>>
            /\ tSymbols' \in Orders(DOMAIN bars)
    /\ UNCHANGED <<tSymbol, barChan, currentBars, tCalls, tEvents>>

\* one turn of the loop over the symbols, up to the start of the stream
TestSymbol ==
    /\ tPc = "symbols"
    /\ IF tSymbols = <<>>
       THEN /\ tPc' = "done"
            /\ UNCHANGED <<tSymbols, tSymbol, barChan, currentBars>>
       ELSE LET symbol == Head(tSymbols)
                all    == IF symbol \in DOMAIN bars THEN bars[symbol].b ELSE <<>>
                span   == TimeSpan(all, tWin[1], tWin[2])
            IN  /\ tSymbols' = Tail(tSymbols)
                /\ tSymbol' = symbol
                /\ currentBars' = <<>>
                /\ IF Len(all) = 0 \/ Len(span) = 0
                   THEN UNCHANGED <<tPc, barChan>>
                   ELSE /\ tPc' = "stream"
                        /\ barChan' = StreamInterval(span, tWin[1], tWin[2], Period(span))
    /\ UNCHANGED <<tWin, tCalls, tEvents>>

\* one turn of the loop over the stream: the bar received, the portfolio and
\* the context brought up to date, OnBar called and its event added
TestBar(outcome) ==
    /\ tPc = "stream"
    /\ IF barChan = <<>>
       THEN /\ tPc' = "symbols"
            /\ UNCHANGED <<barChan, currentBars, tCalls, tEvents, pfVars>>
       ELSE LET bar == Head(barChan)
                cur == <<bar>> \o currentBars
            IN  /\ barChan' = Tail(barChan)
                /\ IF bar.t = 0
                   THEN UNCHANGED <<tPc, currentBars, tCalls, tEvents, pfVars>>
                   ELSE /\ currentBars' = cur
                        /\ IF tSymbol \in DOMAIN Positions
                           THEN LET pos == [Positions[tSymbol] EXCEPT !.Current = bar.v]
                                    ps  == Put(Positions, tSymbol,
                                               [pos EXCEPT !.PnL = UnrealizedPnL(pos)])
                                IN  /\ Positions' = ps
                                    /\ Stats' = updateStats(Balance, ps, Stats)
                           ELSE UNCHANGED <<Positions, Stats>>
                        /\ UNCHANGED Balance
                        /\ strat' = [symbol |-> tSymbol, time |-> bar.t, price |-> bar.v]
                        /\ tCalls' = Append(tCalls, [symbol |-> tSymbol, bars |-> cur,
                                                     ctx |-> strat'])
                        /\ tPc' = IF outcome = "panic" THEN "panic" ELSE "stream"
                        /\ tEvents' = IF outcome = "event"
                                      THEN EventsAdd(tEvents, Sit("T")').events
                                      ELSE tEvents
    /\ UNCHANGED <<tWin, tSymbols, tSymbol>>

\* Tester.Test returns its result: the tester can be used for another run,
\* whose OnBar calls are counted anew
TestReturn ==
    /\ tPc = "done"
    /\ tPc' = "idle"
    /\ tCalls' = <<>>
    /\ UNCHANGED <<tWin, tSymbols, tSymbol, barChan, currentBars, tEvents>>

\* Tester.ClearEvents
ClearEvents ==
    /\ tPc = "idle"
    /\ tEvents' = <<>>
    /\ UNCHANGED <<tPc, tWin, tSymbols, tSymbol, barChan, currentBars, tCalls>>

\* ------------------------------------------------------------------------
\* EventHandler
\* ------------------------------------------------------------------------
\* a goroutine Start has not spawned, or one that has returned
NoPump == [pc |-> "none", symbol |-> NoSymbol, bars |-> <<>>, todo |-> <<>>,
           event |-> ZeroEvent, n |-> 0]

\* make(map[EventType][]EventCallback)
NoHandlers == [x \in {} |-> NilBars]

\* no Handle call in progress: nothing read, nothing invoked, nothing returned
NoHandle == [pc |-> "none", type |-> "", subs |-> <<>>, view |-> <<>>, shared |-> FALSE,
             i |-> 0, invoked |-> <<>>, ret |-> ""]

\* Start is not draining the channel
NoDrain == [pc |-> "none", old |-> FALSE]

\* neither Start nor Stop called yet
NoCall == [op |-> "", err |-> ""]

\* NewEventHandler: it leaves the embedded *sync.RWMutex nil
NewEventHandler ==
    /\ ehmu = "nil"
    /\ running = FALSE
    /\ strategies = <<>>
    /\ pumps = [i \in 1..MaxPumps |-> NoPump]
    /\ events = <<>>
    /\ handled = <<>>
    /\ crashed = ""
    /\ handlers = NoHandlers
    /\ hcall = NoHandle
    /\ ehCall = NoCall
    /\ drain = NoDrain

\* the caller gives the handler a mutex: eh.RWMutex = new(sync.RWMutex)
SetRWMutex ==
    /\ crashed = ""
    /\ ehmu = "nil"
    /\ ehmu' = "set"
    /\ UNCHANGED <<running, strategies, pumps, events, handled, crashed, C>>
    /\ UNCHANGED <<handlers, hcall, ehCall, drain>>

\* eh.Lock() and eh.RLock() on the nil mutex: a nil pointer dereference
LockPanics ==
    /\ crashed' = "Lock"
    /\ UNCHANGED <<ehmu, running, strategies, pumps, events, handled, C>>

\* fmt.Sprintf("%T", strategy)[6:], on the characters of the type
TypeName(strategy) == SubSeq(strategy.typ, 7, Len(strategy.typ))

\* EventHandler.AddStrategy
AddStrategy(strategy) ==
    /\ crashed = ""
    /\ IF ehmu = "nil" THEN LockPanics
       ELSE /\ strategies' =
                 IF \E i \in 1..Len(strategies) : TypeName(strategy) = TypeName(strategies[i])
                 THEN strategies
                 ELSE Append(strategies, strategy)
            /\ UNCHANGED <<ehmu, running, pumps, events, handled, crashed, C>>
    /\ UNCHANGED <<handlers, hcall, ehCall, drain>>

\* what RemoveStrategy leaves: the first match replaced by the last, the list cut by one
Removed(list, i) ==
    LET l == Len(list)
    IN  SubSeq([list EXCEPT ![i] = list[l]], 1, l - 1)

\* EventHandler.RemoveStrategy
RemoveStrategy(strategy) ==
    /\ crashed = ""
    /\ IF ehmu = "nil" THEN LockPanics
       ELSE /\ strategies' =
                 IF \E i \in 1..Len(strategies) : strategies[i] = strategy
                 THEN Removed(strategies,
                              CHOOSE i \in 1..Len(strategies) :
                                  /\ strategies[i] = strategy
                                  /\ \A j \in 1..(i - 1) : strategies[j] # strategy)
                 ELSE strategies
            /\ UNCHANGED <<ehmu, running, pumps, events, handled, crashed, C>>
    /\ UNCHANGED <<handlers, hcall, ehCall, drain>>

\* EventHandler.Start: the flag set, the channel drained, the goroutine spawned
Start ==
    /\ crashed = ""
    /\ UNCHANGED <<handlers, hcall, drain>>
    /\ IF ehmu = "nil" THEN LockPanics /\ ehCall' = [op |-> "Start", err |-> "panic"]
       ELSE IF running
       THEN /\ ehCall' = [op |-> "Start", err |-> "already running"]
            /\ UNCHANGED <<ehmu, running, strategies, pumps, events, handled, crashed, C>>
       ELSE /\ \E i \in 1..MaxPumps : pumps[i].pc = "none"
            /\ ehCall' = [op |-> "Start", err |-> "nil"]
            /\ running' = TRUE
            /\ C' = [C EXCEPT !.q = <<>>]
            /\ LET i == CHOOSE j \in 1..MaxPumps : pumps[j].pc = "none"
               IN  pumps' = [pumps EXCEPT ![i] = [NoPump EXCEPT !.pc = "select"]]
            /\ UNCHANGED <<ehmu, strategies, events, handled, crashed>>

\* EventHandler.Stop
Stop ==
    /\ crashed = ""
    /\ UNCHANGED <<handlers, hcall, drain>>
    /\ IF ehmu = "nil" THEN LockPanics /\ ehCall' = [op |-> "Stop", err |-> "panic"]
       ELSE IF ~running
       THEN /\ ehCall' = [op |-> "Stop", err |-> "not running"]
            /\ UNCHANGED <<ehmu, running, strategies, pumps, events, handled, crashed, C>>
       ELSE /\ ehCall' = [op |-> "Stop", err |-> "nil"]
            /\ running' = FALSE
            /\ UNCHANGED <<ehmu, strategies, pumps, events, handled, crashed, C>>

\* EventHandler.Start up to its drain loop: the flag tested and set under
\* the lock
StartLock ==
    /\ crashed = ""
    /\ drain.pc = "none"
    /\ UNCHANGED <<handlers, hcall>>
    /\ IF ehmu = "nil"
       THEN LockPanics /\ ehCall' = [op |-> "Start", err |-> "panic"] /\ UNCHANGED drain
       ELSE IF running
       THEN /\ ehCall' = [op |-> "Start", err |-> "already running"]
            /\ UNCHANGED <<ehmu, running, strategies, pumps, events, handled, crashed, C, drain>>
       ELSE /\ \E i \in 1..MaxPumps : pumps[i].pc = "none"
            /\ running' = TRUE
            /\ drain' = [pc |-> "len", old |-> FALSE]
            /\ UNCHANGED <<ehmu, strategies, pumps, events, handled, crashed, C, ehCall>>

\* the test of the drain loop, len(hist.C) > 0; when it fails the goroutine
\* is spawned and Start returns
DrainLen ==
    /\ crashed = ""
    /\ drain.pc = "len"
    /\ IF Len(C.q) > 0
       THEN /\ drain' = [drain EXCEPT !.pc = "recv"]
            /\ UNCHANGED <<pumps, ehCall>>
       ELSE /\ drain' = NoDrain
            /\ ehCall' = [op |-> "Start", err |-> "nil"]
            /\ LET i == CHOOSE j \in 1..MaxPumps : pumps[j].pc = "none"
               IN  pumps' = [pumps EXCEPT ![i] = [NoPump EXCEPT !.pc = "select"]]
    /\ UNCHANGED <<ehmu, running, strategies, events, handled, crashed, C, handlers, hcall>>

\* the body of the drain loop, <-hist.C: a receive that waits for a token
\* on the channel it was started on
DrainRecv ==
    /\ crashed = ""
    /\ drain.pc = "recv"
    /\ ~drain.old
    /\ Len(C.q) > 0
    /\ C' = [C EXCEPT !.q = Tail(@)]
    /\ drain' = [drain EXCEPT !.pc = "len"]
    /\ UNCHANGED <<ehmu, running, strategies, pumps, events, handled, crashed,
                   handlers, hcall, ehCall>>

\* History.Add beside a Start that stands at its receive: when Add replaces
\* hist.C, the tokens move to the new channel and the receive is left on the
\* old one
AddBesideDrain(symbol, s) ==
    /\ Add(symbol, s)
    /\ drain' = IF drain.pc = "recv" /\ symbol \notin DOMAIN bars
                THEN [drain EXCEPT !.old = TRUE] ELSE drain
    /\ UNCHANGED <<ehmu, running, strategies, pumps, events, handled, crashed,
                   handlers, hcall, ehCall>>

\* what a strategy's OnBar does in the pump: nothing, an event built by Sit
\* from the context, an event built from the newest bar it was given, a panic
PumpOutcomes == {"none", "sit", "signal", "panic"}

\* the event a strategy builds from the arguments of OnBar
Signal(name, symbol, bs) ==
    [Symbol |-> symbol, Name |-> name, Type |-> "MARKET_BUY",
     Time |-> LastBar(bs).t, Price |-> LastBar(bs).v]

\* the select of goroutine i takes a token: the strategies and the bars are read
PumpRecv(i) ==
    /\ crashed = ""
    /\ pumps[i].pc = "select"
    /\ Len(C.q) > 0
    /\ C' = [C EXCEPT !.q = Tail(@)]
    /\ LET symbol == Head(C.q)
       IN  pumps' = IF Len(strategies) = 0 THEN pumps
                    ELSE [pumps EXCEPT ![i] =
                            [NoPump EXCEPT !.pc = "onbar", !.symbol = symbol,
                               !.bars = IF symbol \in DOMAIN bars THEN bars[symbol].b ELSE <<>>,
                               !.todo = strategies]]
    /\ UNCHANGED <<ehmu, running, strategies, events, handled, crashed>>
    /\ UNCHANGED <<handlers, hcall, ehCall, drain>>

\* one turn of the loop over the strategies: OnBar, then the scan Events.Add makes
PumpOnBar(i, outcome) ==
    /\ crashed = ""
    /\ pumps[i].pc = "onbar"
    /\ Len(handled) < MaxHandled
    /\ LET p == pumps[i]
       IN  IF p.todo = <<>>
           THEN /\ pumps' = [pumps EXCEPT ![i] = [NoPump EXCEPT !.pc = "select"]]
                /\ UNCHANGED crashed
           ELSE LET strategy == Head(p.todo)
                    event == IF outcome = "sit" THEN Sit(strategy.name)
                             ELSE Signal(strategy.name, p.symbol, p.bars)
                    next == [p EXCEPT !.todo = Tail(@)]
                IN  IF outcome = "panic"
                    THEN crashed' = "OnBar" /\ UNCHANGED pumps
                    ELSE /\ UNCHANGED crashed
                         /\ pumps' =
                              IF outcome # "none" /\ EventsAdd(events, event).ok
                              THEN [pumps EXCEPT ![i] =
                                      [p EXCEPT !.pc = "append", !.event = event,
                                                !.n = Len(events)]]
                              ELSE [pumps EXCEPT ![i] = next]
    /\ UNCHANGED <<ehmu, running, strategies, events, handled, C>>
    /\ UNCHANGED <<handlers, hcall, ehCall, drain>>

\* the append that ends Events.Add, onto the list as it is now or as the scan
\* saw it, then Handle
PumpAppend(i) ==
    /\ crashed = ""
    /\ pumps[i].pc = "append"
    /\ LET p == pumps[i]
       IN  /\ events' \in {Append(events, p.event),
                           Append(SubSeq(events, 1, p.n), p.event)}
           /\ handled' = Append(handled, p.event)
           /\ pumps' = [pumps EXCEPT ![i] =
                          [p EXCEPT !.pc = "onbar", !.todo = Tail(@),
                                    !.event = ZeroEvent, !.n = 0]]
    /\ UNCHANGED <<ehmu, running, strategies, crashed, C>>
    /\ UNCHANGED <<handlers, hcall, ehCall, drain>>

\* the default case of the select, taken with no token to receive: the
\* goroutine returns once running is false
PumpDefault(i) ==
    /\ crashed = ""
    /\ pumps[i].pc = "select"
    /\ Len(C.q) = 0
    /\ ~running
    /\ pumps' = [pumps EXCEPT ![i] = NoPump]
    /\ UNCHANGED <<ehmu, running, strategies, events, handled, crashed, C>>
    /\ UNCHANGED <<handlers, hcall, ehCall, drain>>

\* EventHandler.Subscribe: append, which moves the callbacks to a new array
\* when the old one is full
Subscribe(eventType, callback) ==
    /\ crashed = ""
    /\ IF ehmu = "nil" THEN LockPanics /\ UNCHANGED <<handlers, hcall>>
       ELSE LET old   == IF eventType \in DOMAIN handlers THEN handlers[eventType]
                         ELSE NilBars
                full  == Len(old.b) = old.cap
                added == Append(old.b, callback)
            IN  /\ Len(old.b) < MaxSubs
                /\ handlers' = Put(handlers, eventType,
                                   Entry(added, IF full THEN GrowCap(old.cap) ELSE old.cap))
                /\ hcall' = IF hcall.pc = "loop" /\ hcall.type = eventType /\ hcall.shared
                            THEN IF full THEN [hcall EXCEPT !.shared = FALSE]
                                 ELSE [hcall EXCEPT !.view = InPlaceView(@, added)]
                            ELSE hcall
                /\ UNCHANGED <<ehmu, running, strategies, pumps, events, handled, crashed, C>>
    /\ UNCHANGED <<ehCall, drain>>

\* the callbacks left once the first one that prints like callback under %p
\* is cut out
Unsubscribed(callbacks, callback) ==
    IF \E i \in 1..Len(callbacks) : callbacks[i].fn = callback.fn
    THEN LET i == CHOOSE j \in 1..Len(callbacks) :
                     /\ callbacks[j].fn = callback.fn
                     /\ \A k \in 1..(j - 1) : callbacks[k].fn # callback.fn
         IN  SubSeq(callbacks, 1, i - 1) \o SubSeq(callbacks, i + 1, Len(callbacks))
    ELSE callbacks

\* EventHandler.Unsubscribe: append(callbacks[:i], callbacks[i+1:]...) moves
\* the later callbacks down inside the array
Unsubscribe(eventType, callback) ==
    /\ crashed = ""
    /\ IF ehmu = "nil" THEN LockPanics /\ UNCHANGED <<handlers, hcall>>
       ELSE /\ IF eventType \in DOMAIN handlers
               THEN LET left == Unsubscribed(handlers[eventType].b, callback)
                    IN  /\ handlers' = Put(handlers, eventType,
                                           Entry(left, handlers[eventType].cap))
                        /\ hcall' = IF hcall.pc = "loop" /\ hcall.type = eventType
                                       /\ hcall.shared
                                    THEN [hcall EXCEPT !.view = InPlaceView(@, left)]
                                    ELSE hcall
               ELSE UNCHANGED <<handlers, hcall>>
            /\ UNCHANGED <<ehmu, running, strategies, pumps, events, handled, crashed, C>>
    /\ UNCHANGED <<ehCall, drain>>

\* EventHandler.Handle up to its loop: the callbacks of the event's type are
\* read under the read lock
HandleRead(eventType) ==
    /\ crashed = ""
    /\ hcall.pc = "none"
    /\ IF ehmu = "nil"
       THEN /\ LockPanics
            /\ hcall' = [NoHandle EXCEPT !.pc = "panic", !.type = eventType]
       ELSE /\ hcall' =
                 IF eventType \in DOMAIN handlers
                 THEN [NoHandle EXCEPT !.pc = "loop", !.type = eventType,
                                       !.subs = handlers[eventType].b,
                                       !.view = handlers[eventType].b,
                                       !.shared = TRUE, !.i = 1]
                 ELSE [NoHandle EXCEPT !.pc = "done", !.type = eventType, !.ret = "nil"]
            /\ UNCHANGED <<ehmu, running, strategies, pumps, events, handled, crashed, C>>
    /\ UNCHANGED <<handlers, ehCall, drain>>

\* one turn of the loop of Handle, made without the lock: the next callback
\* is read from the array and invoked
HandleCall ==
    /\ crashed = ""
    /\ hcall.pc = "loop"
    /\ hcall' =
         IF hcall.i > Len(hcall.view)
         THEN [hcall EXCEPT !.pc = "done", !.ret = "nil"]
         ELSE LET callback == hcall.view[hcall.i]
              IN  IF callback.err
                  THEN [hcall EXCEPT !.pc = "done", !.invoked = Append(@, callback),
                                     !.ret = "event handler error"]
                  ELSE [hcall EXCEPT !.i = @ + 1, !.invoked = Append(@, callback)]
    /\ UNCHANGED <<ehmu, running, strategies, pumps, events, handled, crashed, C>>
    /\ UNCHANGED <<handlers, ehCall, drain>>

\* the caller of Handle has its result
HandleReturn ==
    /\ crashed = ""
    /\ hcall.pc = "done"
    /\ hcall' = NoHandle
    /\ UNCHANGED <<ehmu, running, strategies, pumps, events, handled, crashed, C>>
    /\ UNCHANGED <<handlers, ehCall, drain>>

\* ------------------------------------------------------------------------
\* calls of Events.Sort, Events.Find and Events.Add on a list
\* ------------------------------------------------------------------------
\* no call made: nothing returned
NoRet == [ok |-> FALSE, n |-> -1, e |-> ZeroEvent]

EventsIdle == eArg = ZeroEvent /\ eRet = NoRet /\ ePc = "idle"

\* Events.FirstEvent
FirstEvent(evs) == IF 1 > Len(evs) THEN ZeroEvent ELSE evs[Len(evs)]

\* Events.LastEvent
LastEvent(evs) == IF 1 > Len(evs) THEN ZeroEvent ELSE evs[1]

\* Events.Find: the index, counted from 0, and the event, or -1 and Event{}
EventsFind(evs, dt) ==
    IF 1 > Len(evs) THEN [n |-> -1, e |-> ZeroEvent]
    ELSE IF FirstEvent(evs).Time > dt \/ LastEvent(evs).Time < dt
    THEN [n |-> -1, e |-> ZeroEvent]
    ELSE IF \E i \in 1..Len(evs) : evs[i].Time = dt
    THEN LET i == CHOOSE j \in 1..Len(evs) :
                     evs[j].Time = dt /\ \A k \in 1..(j - 1) : evs[k].Time # dt
         IN  [n |-> i - 1, e |-> evs[i]]
    ELSE [n |-> -1, e |-> ZeroEvent]

\* e put behind the events of evs that are not later than it
RECURSIVE InsertAsc(_, _)
InsertAsc(e, evs) ==
    IF evs = <<>> THEN <<e>>
    ELSE IF e.Time < Head(evs).Time THEN <<e>> \o evs
    ELSE <<Head(evs)>> \o InsertAsc(e, Tail(evs))

\* Events.Sort: a stable sort, earliest first
RECURSIVE EventsSort(_)
EventsSort(evs) ==
    IF evs = <<>> THEN <<>>
    ELSE InsertAsc(evs[Len(evs)], EventsSort(SubSeq(evs, 1, Len(evs) - 1)))

\* the events a list may hold
StoredEvents ==
    {[Symbol |-> <<"A", "1m">>, Name |-> nm, Type |-> ty, Time |-> t, Price |-> 1] :
        nm \in {"ema", "rsi"}, ty \in {"MARKET_BUY", "OTHER"}, t \in 1..EvMaxT}

\* the events Add may be called with
EventArgs ==
    {[Symbol |-> sy, Name |-> nm, Type |-> ty, Time |-> t, Price |-> pr] :
        sy \in {NoSymbol, <<"A", "1m">>}, nm \in {"ema", "rsi"},
        ty \in {"MARKET_BUY", "OTHER"}, t \in 1..EvMaxT, pr \in {0, 1}}

\* the lists Add, Find and Sort may be called on
EventLists == UNION {[1..n -> StoredEvents] : n \in 0..MaxEvents}

\* events.Add(eArg)
AddCall ==
    /\ ePc = "call"
    /\ events' = EventsAdd(events, eArg).events
    /\ eRet' = [NoRet EXCEPT !.ok = EventsAdd(events, eArg).ok]
    /\ ePc' = "added"
    /\ UNCHANGED eArg

\* events.Sort()
SortCall ==
    /\ ePc = "call"
    /\ events' = EventsSort(events)
    /\ ePc' = "sorted"
    /\ UNCHANGED <<eArg, eRet>>

\* events.Find(eArg.Time), on the list as it was handed in or after Sort
FindCall ==
    /\ ePc \in {"call", "sorted"}
    /\ eRet' = [NoRet EXCEPT !.n = EventsFind(events, eArg.Time).n,
                             !.e = EventsFind(events, eArg.Time).e]
    /\ ePc' = "found"
    /\ UNCHANGED <<events, eArg>>


\* the store right after New(), no update loop, a new strategy
StoreIdle ==
    /\ bars = EmptyMap
    /\ C = [cap |-> 1, q |-> <<>>]
    /\ db = [k \in Keys |-> <<>>]
    /\ mu = "unlocked"
    /\ snap = NoSnap
    /\ mref = "none"
    /\ lt = NoLimitTime
    /\ update = FALSE
    /\ maxlimit = DefaultMaxLimit
    /\ now = NowStart
    /\ loops = [i \in 1..MaxLoops |-> NoLoop]
    /\ dl = EmptyBag
    /\ NewBaseStrategy
    /\ NewTester
    /\ NewEventHandler
    /\ EventsIdle
    /\ aRet = NoAdd
    /\ logged = {}
    /\ sRet = NoOrder

\* persisted series a database file may hold when the program starts
Persisted(k) ==
    IF k = <<"A", "1m">> THEN {<<>>, <<MkBar(2, 0), MkBar(1, 0)>>}
    ELSE {<<>>} \cup OtherSeries

MergeIdle == mOld = <<>> /\ mNew = <<>> /\ mOut = <<>> /\ mPc = "idle"

InitStore ==
    /\ bars = EmptyMap
    /\ C = [cap |-> 1, q |-> <<>>]
    /\ db \in {f \in [Keys -> InSeries] : \A k \in Keys : f[k] \in Persisted(k)}
    /\ mu = "unlocked"
    /\ snap = NoSnap
    /\ mref = "none"
    /\ lt = NoLimitTime
    /\ update = FALSE
    /\ maxlimit = DefaultMaxLimit
    /\ now = NowStart
    /\ loops = [i \in 1..MaxLoops |-> NoLoop]
    /\ dl = EmptyBag
    /\ NewBaseStrategy
    /\ NewTester
    /\ NewEventHandler
    /\ EventsIdle
    /\ aRet = NoAdd
    /\ logged = {}
    /\ sRet = NoOrder
    /\ MergeIdle

NextStore ==
    \/ \E k \in Keys : \E s \in AddInputs(k) : Add(k, s) /\ UNCHANGED <<callVars, mergeVars, testVars, ehVars, evVars, pfVars, updVars>>
    \/ \E k \in Keys : Load(k) /\ UNCHANGED <<callVars, mergeVars, testVars, ehVars, evVars, pfVars, updVars>>
    \/ \E sym \in Symbols : Unload(sym) /\ UNCHANGED <<callVars, mergeVars, testVars, ehVars, evVars, pfVars, updVars>>
    \/ \E n \in 0..MaxT : Limit(n) /\ UNCHANGED <<callVars, mergeVars, testVars, ehVars, evVars, pfVars, updVars>>
    \/ \E w \in Windows : LimitTime(w[1], w[2]) /\ UNCHANGED <<callVars, mergeVars, testVars, ehVars, evVars, pfVars, updVars>>
    \/ \E k \in Keys : LimitTimeRange(k) /\ UNCHANGED <<callVars, mergeVars, testVars, ehVars, evVars, pfVars, updVars>>
    \/ \E k \in Keys : LimitTimeSym(k) /\ UNCHANGED <<callVars, mergeVars, testVars, ehVars, evVars, pfVars, updVars>>
    \/ Recv /\ UNCHANGED <<callVars, mergeVars, testVars, ehVars, evVars, pfVars, updVars>>

SpecStore == InitStore /\ [][NextStore]_vars

\* the values GetBars and Map return, followed through every operation on
\* one key; the series added reach one bar beyond MaxT
SnapInputs == DescSeqs(MaxT + 1, StoreVals)

NextSnap ==
    \/ \E s \in SnapInputs : Add(<<"A", "1m">>, s) /\ UNCHANGED <<callVars, mergeVars, testVars, ehVars, evVars, pfVars, updVars>>
    \/ Load(<<"A", "1m">>) /\ UNCHANGED <<callVars, mergeVars, testVars, ehVars, evVars, pfVars, updVars>>
    \/ Unload(<<"A", "1m">>) /\ UNCHANGED <<callVars, mergeVars, testVars, ehVars, evVars, pfVars, updVars>>
    \/ \E n \in 0..MaxT : Limit(n) /\ UNCHANGED <<callVars, mergeVars, testVars, ehVars, evVars, pfVars, updVars>>
    \/ \E w \in Windows : LimitTime(w[1], w[2]) /\ UNCHANGED <<callVars, mergeVars, testVars, ehVars, evVars, pfVars, updVars>>
    \/ LimitTimeSym(<<"A", "1m">>) /\ UNCHANGED <<callVars, mergeVars, testVars, ehVars, evVars, pfVars, updVars>>
    \/ GetBars(<<"A", "1m">>) /\ UNCHANGED <<callVars, mergeVars, testVars, ehVars, evVars, pfVars, updVars>>
    \/ Map /\ UNCHANGED <<callVars, mergeVars, testVars, ehVars, evVars, pfVars, updVars>>

InitSnap == InitStore /\ db[<<"B", "1m">>] = <<>>

SpecSnap == InitSnap /\ [][NextSnap]_vars

\* ------------------------------------------------------------------------
\* callers of Add that look at what it returns, on two keys; the channel is
\* read by a consumer, series are cut by Limit and keys unloaded
\* ------------------------------------------------------------------------
\* nothing persisted, nothing loaded
InitAdd == StoreIdle /\ MergeIdle

NextAdd ==
    \/ \E k \in Keys : \E s \in AddInputs(k) :
          CallAdd(k, s) /\ UNCHANGED <<mergeVars, testVars, ehVars, evVars, pfVars, updVars>>
    \/ \E k \in Keys : Unload(k) /\ UNCHANGED <<callVars, mergeVars, testVars, ehVars, evVars, pfVars, updVars>>
    \/ \E n \in 0..MaxT : Limit(n) /\ UNCHANGED <<callVars, mergeVars, testVars, ehVars, evVars, pfVars, updVars>>
    \/ Recv /\ UNCHANGED <<callVars, mergeVars, testVars, ehVars, evVars, pfVars, updVars>>

SpecAdd == InitAdd /\ [][NextAdd]_vars

\* the same callers on one key
NextAddKey ==
    \/ \E s \in InSeries :
          CallAdd(TheKey, s) /\ UNCHANGED <<mergeVars, testVars, ehVars, evVars, pfVars, updVars>>
    \/ Unload(TheKey) /\ UNCHANGED <<callVars, mergeVars, testVars, ehVars, evVars, pfVars, updVars>>
    \/ \E n \in 0..MaxT : Limit(n) /\ UNCHANGED <<callVars, mergeVars, testVars, ehVars, evVars, pfVars, updVars>>
    \/ Recv /\ UNCHANGED <<callVars, mergeVars, testVars, ehVars, evVars, pfVars, updVars>>

SpecAddKey == InitAdd /\ [][NextAddKey]_vars

\* ------------------------------------------------------------------------
\* History.Update: the background loop and its download goroutines
\* ------------------------------------------------------------------------
\* Go's integer division truncates toward zero
TruncDiv(a, b) == IF a >= 0 THEN a \div b ELSE -((-a) \div b)

calcLimit(last, period) == -TruncDiv(last - now, period)

\* the limit the loop computes for one stored series
LoopLimit(symbol) ==
    IF Len(bars[symbol].b) > 0
    THEN calcLimit(LastBar(bars[symbol].b).t, Period(bars[symbol].b))
    ELSE maxlimit

\* a download goroutine: its symbol, its limit and, if the cycle that started
\* it was the first of an Update call, that call
Download(symbol, limit, call) == [k |-> symbol, limit |-> limit, call |-> call]

RECURSIVE BagSum(_, _)
\* the union of the bags f[x], x in S
BagSum(f, S) ==
    IF S = {} THEN EmptyBag
    ELSE LET x == CHOOSE y \in S : TRUE IN f[x] (+) BagSum(f, S \ {x})

\* the goroutines one cycle starts: for every symbol whose limit exceeds 1,
\* one for every stored symbol, all with that limit
CycleDownloads(call) ==
    BagSum([s \in DOMAIN bars |->
              IF LoopLimit(s) > 1
              THEN BagSum([s2 \in DOMAIN bars |->
                             SetToBag({Download(s2, LoopLimit(s), call)})],
                          DOMAIN bars)
              ELSE EmptyBag],
           DOMAIN bars)

SetMaxLimit(v) ==
    /\ maxlimit' = v
    /\ UNCHANGED <<update, now, loops, dl>>

Tick ==
    /\ now < MaxNow
    /\ now' = now + 1
    /\ UNCHANGED <<update, maxlimit, loops, dl>>

\* Update(enabled) up to the start of its goroutine
Update(enabled) ==
    /\ mu = "unlocked"
    /\ \E i \in DOMAIN loops :
          /\ loops[i].pc = "none"
          /\ \A j \in 1..(i - 1) : loops[j].pc # "none"
          /\ loops' = [loops EXCEPT ![i] = [pc |-> "run", done |-> FALSE, ret |-> FALSE]]
    /\ update' = enabled
    /\ UNCHANGED <<maxlimit, now, dl>>

\* the downloads left once the record of call i is dropped: its first-cycle
\* goroutines are no longer told apart from later ones
Untagged(i) ==
    BagSum([d \in BagToSet(dl) |->
              [x \in {Download(d.k, d.limit, IF d.call = i THEN 0 ELSE d.call)}
                 |-> dl[d]]],
           BagToSet(dl))

\* LoopIterate without the test of h.update
LoopIterateUnchecked(i) ==
    /\ mu = "unlocked"
    /\ loops[i].pc = "run"
    /\ BagCardinality(dl) < MaxPending
    /\ dl' = dl (+) CycleDownloads(IF loops[i].done THEN 0 ELSE i)
    /\ loops' = [loops EXCEPT ![i].done = TRUE]
    /\ UNCHANGED <<update, maxlimit, now>>

\* one iteration of the goroutine: it reads h.update and exits when updating
\* is disabled; otherwise it ranges over h.bars under the read lock, starts
\* the downloads, waits on the WaitGroup of the outer scope (which no
\* goroutine was added to), sets done and sleeps one second
LoopIterate(i) ==
    /\ mu = "unlocked"
    /\ loops[i].pc = "run"
    /\ IF update
       THEN LET started == CycleDownloads(IF loops[i].done THEN 0 ELSE i)
            IN  /\ BagCardinality(dl) < MaxPending
                /\ dl' = dl (+) started
                /\ loops' = [loops EXCEPT ![i].done = TRUE]
       ELSE IF loops[i].ret
       THEN /\ loops' = [loops EXCEPT ![i] = NoLoop]
            /\ dl' = Untagged(i)
       ELSE /\ loops' = [loops EXCEPT ![i].pc = "exit", ![i].done = TRUE]
            /\ dl' = dl
    /\ UNCHANGED <<update, maxlimit, now>>

\* Update returns once its caller sees done
UpdateReturn(i) ==
    /\ loops[i].pc # "none"
    /\ loops[i].done
    /\ ~loops[i].ret
    /\ IF loops[i].pc = "exit"
       THEN /\ loops' = [loops EXCEPT ![i] = NoLoop]
            /\ dl' = Untagged(i)
       ELSE /\ loops' = [loops EXCEPT ![i].ret = TRUE]
            /\ dl' = dl
    /\ UNCHANGED <<update, maxlimit, now>>

\* what GetKlines may return for a symbol: up to limit bars, newest first
Klines(symbol, limit) == {s \in AddInputs(symbol) : Len(s) <= limit}

\* the freshness test with Before in the place of After
OutdatedBefore(fetched) == now - 2 * Period(fetched) < LastBar(fetched).t

\* the fetched series is outdated
Outdated(fetched) == now - 2 * Period(fetched) > LastBar(fetched).t

Take(d) == dl (-) SetToBag({d})

\* download that unloads the symbol when GetKlines fails
DownloadFailUnloads(d) ==
    /\ BagIn(d, dl)
    /\ dl' = Take(d)
    /\ UNCHANGED <<update, maxlimit, now, loops>>
    /\ bars' = Del(bars, {d.k})
    /\ UNCHANGED <<C, db, mu, snap, mref, lt>>

\* download: GetKlines fails
DownloadFail(d) ==
    /\ BagIn(d, dl)
    /\ dl' = Take(d)
    /\ UNCHANGED <<update, maxlimit, now, loops>>
    /\ UNCHANGED storeVars

\* a goroutine of the update cycle whose download returned an error: the
\* failure is logged and the goroutine sleeps ten seconds, then ends
CycleDownloadFail(d) ==
    /\ DownloadFail(d)
    /\ logged' = logged \cup {d.k}
    /\ UNCHANGED <<aRet, sRet>>

\* download: GetKlines returns fetched, which is checked and added
DownloadDone(d, fetched) ==
    /\ BagIn(d, dl)
    /\ fetched \in Klines(d.k, d.limit)
    /\ dl' = Take(d)
    /\ UNCHANGED <<update, maxlimit, now, loops>>
    /\ IF 2 > Len(fetched) THEN UNCHANGED storeVars
       ELSE /\ mu = "unlocked"
            /\ UNCHANGED lt
            /\ IF Outdated(fetched)
               THEN /\ bars' = Del(bars, {d.k})
                    /\ snap' = SnapDetached({d.k})
                    /\ UNCHANGED <<C, db, mu, mref>>
               ELSE ApplyAdd(AddResult(d.k, Tail(fetched), Len(fetched) - 1))

InitUpdate == InitStore

\* what SetMaxLimit is called with
MaxLimits == {2, DefaultMaxLimit}

NextUpdate ==
    \/ \E k \in Keys : Load(k) /\ UNCHANGED <<callVars, mergeVars, testVars, ehVars, evVars, pfVars, updVars>>
    \/ \E v \in MaxLimits : SetMaxLimit(v) /\ UNCHANGED <<callVars, mergeVars, testVars, ehVars, evVars, pfVars, storeVars>>
    \/ \E sym \in Symbols : Unload(sym) /\ UNCHANGED <<callVars, mergeVars, testVars, ehVars, evVars, pfVars, updVars>>
    \/ Tick /\ UNCHANGED <<callVars, mergeVars, testVars, ehVars, evVars, pfVars, storeVars>>
    \/ \E e \in BOOLEAN : Update(e) /\ UNCHANGED <<callVars, mergeVars, testVars, ehVars, evVars, pfVars, storeVars>>
    \/ \E i \in 1..MaxLoops : LoopIterate(i) /\ UNCHANGED <<callVars, mergeVars, testVars, ehVars, evVars, pfVars, storeVars>>
    \/ \E i \in 1..MaxLoops : UpdateReturn(i) /\ UNCHANGED <<callVars, mergeVars, testVars, ehVars, evVars, pfVars, storeVars>>
    \/ \E d \in BagToSet(dl) : DownloadFail(d) /\ UNCHANGED <<callVars, mergeVars, testVars, ehVars, evVars, pfVars>>
    \/ \E d \in BagToSet(dl) : \E f \in Klines(d.k, d.limit) :
          DownloadDone(d, f) /\ UNCHANGED <<callVars, mergeVars, testVars, ehVars, evVars, pfVars>>

SpecUpdate == InitUpdate /\ [][NextUpdate]_vars

\* ReprocessHistory(limit): one download for every stored symbol
ReprocessHistory(limit) ==
    /\ mu = "unlocked"
    /\ BagCardinality(dl) < MaxPending
    /\ dl' = dl (+) BagSum([s \in DOMAIN bars |-> SetToBag({Download(s, limit, 0)})],
                           DOMAIN bars)
    /\ UNCHANGED <<update, maxlimit, now, loops>>

\* the limits downloads are started with: two bars, or maxlimit (a fetch with
\* a limit in between returns a series a fetch with maxlimit may return too)
FetchLimits == {2, DefaultMaxLimit}

\* every operation that changes a stored series, on one key; the download
\* goroutines, which an update cycle starts too, are started by ReprocessHistory
InitSeries == InitStore /\ db[<<"B", "1m">>] = <<>>

NextSeries ==
    \/ \E s \in InSeries : Add(TheKey, s) /\ UNCHANGED <<callVars, mergeVars, testVars, ehVars, evVars, pfVars, updVars>>
    \/ Load(TheKey) /\ UNCHANGED <<callVars, mergeVars, testVars, ehVars, evVars, pfVars, updVars>>
    \/ \E sym \in Symbols : Unload(sym) /\ UNCHANGED <<callVars, mergeVars, testVars, ehVars, evVars, pfVars, updVars>>
    \/ \E n \in 0..MaxT : Limit(n) /\ UNCHANGED <<callVars, mergeVars, testVars, ehVars, evVars, pfVars, updVars>>
    \/ \E w \in Windows : LimitTime(w[1], w[2]) /\ UNCHANGED <<callVars, mergeVars, testVars, ehVars, evVars, pfVars, updVars>>
    \/ LimitTimeSym(TheKey) /\ UNCHANGED <<callVars, mergeVars, testVars, ehVars, evVars, pfVars, updVars>>
    \/ Tick /\ UNCHANGED <<callVars, mergeVars, testVars, ehVars, evVars, pfVars, storeVars>>
    \/ \E l \in FetchLimits : ReprocessHistory(l) /\ UNCHANGED <<callVars, mergeVars, testVars, ehVars, evVars, pfVars, storeVars>>
    \/ \E d \in BagToSet(dl) : DownloadFail(d) /\ UNCHANGED <<callVars, mergeVars, testVars, ehVars, evVars, pfVars>>
    \/ \E d \in BagToSet(dl) : \E f \in Klines(d.k, d.limit) :
          DownloadDone(d, f) /\ UNCHANGED <<callVars, mergeVars, testVars, ehVars, evVars, pfVars>>

SpecSeries == InitSeries /\ [][NextSeries]_vars

\* ------------------------------------------------------------------------
\* a strategy trading on its portfolio
\* ------------------------------------------------------------------------
InitPortfolio == StoreIdle /\ MergeIdle

NextPortfolio ==
    \/ \E sym \in PfSymbols : \E pr \in Prices :
          SetContext(sym, MkBar(1, pr)) /\ UNCHANGED <<callVars, mergeVars, testVars, ehVars, evVars, storeVars, updVars>>
    \/ \E sym \in PfSymbols : \E pr \in Prices :
          UpdatePosition(sym, pr) /\ UNCHANGED <<callVars, mergeVars, testVars, ehVars, evVars, storeVars, updVars>>
    \/ \E sz \in Sizes : \E pr \in Prices :
          BuyEvent(sz, pr) /\ UNCHANGED <<callVars, mergeVars, testVars, ehVars, evVars, storeVars, updVars>>
    \/ \E sz \in Sizes : \E pr \in Prices :
          SellEvent(sz, pr) /\ UNCHANGED <<callVars, mergeVars, testVars, ehVars, evVars, storeVars, updVars>>
    \/ Buy /\ UNCHANGED <<callVars, mergeVars, testVars, ehVars, evVars, storeVars, updVars>>
    \/ Sell /\ UNCHANGED <<callVars, mergeVars, testVars, ehVars, evVars, storeVars, updVars>>
    \/ \E sym \in PfSymbols : \E pr \in Prices :
          ClosePosition(sym, pr) /\ UNCHANGED <<callVars, mergeVars, testVars, ehVars, evVars, storeVars, updVars>>
    \/ \E sym \in PfSymbols : \E pr \in Prices :
          CloseEvent(sym, pr) /\ UNCHANGED <<callVars, mergeVars, testVars, ehVars, evVars, storeVars, updVars>>
    \/ Close /\ UNCHANGED <<callVars, mergeVars, testVars, ehVars, evVars, storeVars, updVars>>

SpecPortfolio == InitPortfolio /\ [][NextPortfolio]_vars

\* ------------------------------------------------------------------------
\* a strategy opening and closing positions, the events it is returned
\* ------------------------------------------------------------------------
\* the sizes a position is opened with
OrderSizes == {2000, 4000}

NextTrade ==
    \/ \E sym \in PfSymbols : \E pr \in Prices :
          UpdatePosition(sym, pr) /\ UNCHANGED <<callVars, mergeVars, testVars, ehVars, evVars, storeVars, updVars>>
    \/ \E sz \in OrderSizes : \E pr \in Prices :
          CallBuyEvent(sz, pr) /\ UNCHANGED <<mergeVars, testVars, ehVars, evVars, storeVars, updVars>>
    \/ \E sz \in OrderSizes : \E pr \in Prices :
          CallSellEvent(sz, pr) /\ UNCHANGED <<mergeVars, testVars, ehVars, evVars, storeVars, updVars>>
    \/ \E sym \in PfSymbols : \E pr \in Prices :
          ClosePosition(sym, pr) /\ UNCHANGED <<callVars, mergeVars, testVars, ehVars, evVars, storeVars, updVars>>

SpecTrade == InitPortfolio /\ [][NextTrade]_vars

\* ------------------------------------------------------------------------
\* a backtest of the bars in the store
\* ------------------------------------------------------------------------
\* the series the store may hold for the first key, closes all 1
TestSeries == DescSeqs(TestMaxT, {1})

\* the maps the store may hold: the first key with any series or absent, the
\* second with a fixed series or absent
TestStores ==
    {[k \in {<<"A", "1m">>} |-> Entry(s, Len(s))] : s \in TestSeries}
    \cup {Put([k \in {<<"A", "1m">>} |-> Entry(s, Len(s))], <<"B", "1m">>,
              Entry(<<MkBar(3, 1), MkBar(2, 1)>>, 2)) : s \in TestSeries}
    \cup {EmptyMap}

\* start and end of a test; 0 is the zero time
TestWindows == {w \in (0..TestMaxT) \X (1..(TestMaxT + 1)) : w[1] <= w[2]}

\* a strategy that has just been made: its context is empty
ZeroContext == [symbol |-> NoSymbol, time |-> 0, price |-> 0]

\* a store with nothing persisted and no update loop, a new strategy, a new
\* tester and a new event handler
HarnessIdle ==
    /\ C = [cap |-> 1, q |-> <<>>]
    /\ db = [k \in Keys |-> <<>>]
    /\ mu = "unlocked"
    /\ snap = NoSnap
    /\ mref = "none"
    /\ lt = NoLimitTime
    /\ update = FALSE
    /\ maxlimit = DefaultMaxLimit
    /\ now = NowStart
    /\ loops = [i \in 1..MaxLoops |-> NoLoop]
    /\ dl = EmptyBag
    /\ NewPortfolioManager
    /\ strat = ZeroContext
    /\ NewTester
    /\ NewEventHandler
    /\ EventsIdle
    /\ aRet = NoAdd
    /\ logged = {}
    /\ sRet = NoOrder
    /\ MergeIdle

InitTest == bars \in TestStores /\ HarnessIdle

NextTest ==
    \/ \E w \in TestWindows :
          Test(w[1], w[2]) /\ UNCHANGED <<callVars, mergeVars, storeVars, updVars, pfVars, ehVars, evVars>>
    \/ TestSymbol /\ UNCHANGED <<callVars, mergeVars, storeVars, updVars, pfVars, ehVars, evVars>>
    \/ \E o \in OnBarOutcomes :
          TestBar(o) /\ UNCHANGED <<callVars, mergeVars, storeVars, updVars, ehVars, evVars>>

SpecTest == InitTest /\ [][NextTest]_vars

\* ------------------------------------------------------------------------
\* one tester used for several backtests of one series
\* ------------------------------------------------------------------------
\* the windows of the repeated tests
RetestWindows == {<<0, TestMaxT>>, <<1, 2>>, <<2, 3>>, <<TestMaxT, TestMaxT>>}

InitRetest ==
    /\ bars = [k \in {TheKey} |-> Entry(<<MkBar(3, 1), MkBar(2, 1), MkBar(1, 1)>>, 3)]
    /\ HarnessIdle

NextRetest ==
    \/ \E w \in RetestWindows :
          Test(w[1], w[2]) /\ UNCHANGED <<callVars, mergeVars, storeVars, updVars, pfVars, ehVars, evVars>>
    \/ TestSymbol /\ UNCHANGED <<callVars, mergeVars, storeVars, updVars, pfVars, ehVars, evVars>>
    \/ \E o \in OnBarOutcomes \ {"panic"} :
          TestBar(o) /\ UNCHANGED <<callVars, mergeVars, storeVars, updVars, ehVars, evVars>>
    \/ TestReturn /\ UNCHANGED <<callVars, mergeVars, storeVars, updVars, pfVars, ehVars, evVars>>
    \/ ClearEvents /\ UNCHANGED <<callVars, mergeVars, storeVars, updVars, pfVars, ehVars, evVars>>

SpecRetest == InitRetest /\ [][NextRetest]_vars

\* ------------------------------------------------------------------------
\* the event handler on a store that keeps receiving bars for one key
\* ------------------------------------------------------------------------
\* the characters of three strategy types, as %T prints them
TypeEma == <<"*", "m", "a", "i", "n", ".", "E", "m", "a">>

TypeRsi == <<"*", "m", "a", "i", "n", ".", "R", "s", "i">>

TypeMacd == <<"*", "m", "a", "i", "n", ".", "M", "a", "c", "d">>

\* strategies a caller may hold: a type and what Name() returns
StrategyPool ==
    {[typ |-> ty, name |-> nm] : ty \in {TypeEma, TypeRsi, TypeMacd}, nm \in {"ema", "rsi", "macd"}}

\* the strategy registered with the pump
PumpStrategies == {[typ |-> TypeEma, name |-> "ema"]}

\* the bars Add receives while the pump runs, closes all 1
PumpInputs == {<<MkBar(2, 1), MkBar(1, 1)>>, <<MkBar(3, 1), MkBar(2, 1)>>}

InitPump == bars = EmptyMap /\ HarnessIdle

NextPump ==
    \/ \E s \in PumpInputs :
          Add(TheKey, s) /\ UNCHANGED <<callVars, mergeVars, testVars, ehVars, evVars, pfVars, updVars>>
    \/ SetRWMutex /\ UNCHANGED <<callVars, mergeVars, testVars, evVars, pfVars, updVars, histVars>>
    \/ \E st \in PumpStrategies :
          AddStrategy(st) /\ UNCHANGED <<callVars, mergeVars, testVars, evVars, pfVars, updVars, histVars>>
    \/ Start /\ UNCHANGED <<callVars, mergeVars, testVars, evVars, pfVars, updVars, histVars>>
    \/ Stop /\ UNCHANGED <<callVars, mergeVars, testVars, evVars, pfVars, updVars, histVars>>
    \/ \E i \in 1..MaxPumps :
          PumpRecv(i) /\ UNCHANGED <<callVars, mergeVars, testVars, evVars, pfVars, updVars, histVars>>
    \/ \E i \in 1..MaxPumps : \E o \in PumpOutcomes :
          PumpOnBar(i, o) /\ UNCHANGED <<callVars, mergeVars, testVars, evVars, pfVars, updVars, histVars>>
    \/ \E i \in 1..MaxPumps :
          PumpAppend(i) /\ UNCHANGED <<callVars, mergeVars, testVars, evVars, pfVars, updVars, histVars>>
    \/ \E i \in 1..MaxPumps :
          PumpDefault(i) /\ UNCHANGED <<callVars, mergeVars, testVars, evVars, pfVars, updVars, histVars>>

SpecPump == InitPump /\ [][NextPump]_vars

\* ------------------------------------------------------------------------
\* Start draining the channel beside Add and other consumers of the channel
\* ------------------------------------------------------------------------
NextStart ==
    \/ SetRWMutex /\ UNCHANGED <<callVars, mergeVars, testVars, evVars, pfVars, updVars, histVars>>
    \/ StartLock /\ UNCHANGED <<callVars, mergeVars, testVars, evVars, pfVars, updVars, histVars>>
    \/ DrainLen /\ UNCHANGED <<callVars, mergeVars, testVars, evVars, pfVars, updVars, histVars>>
    \/ DrainRecv /\ UNCHANGED <<callVars, mergeVars, testVars, evVars, pfVars, updVars, histVars>>
    \/ Stop /\ UNCHANGED <<callVars, mergeVars, testVars, evVars, pfVars, updVars, histVars>>
    \/ \E k \in Keys : \E s \in AddInputs(k) :
          AddBesideDrain(k, s) /\ UNCHANGED <<callVars, mergeVars, testVars, evVars, pfVars, updVars>>
    \/ Recv /\ UNCHANGED <<callVars, mergeVars, testVars, ehVars, evVars, pfVars, updVars>>
    \/ \E i \in 1..MaxPumps :
          PumpRecv(i) /\ UNCHANGED <<callVars, mergeVars, testVars, evVars, pfVars, updVars, histVars>>
    \/ \E i \in 1..MaxPumps :
          PumpDefault(i) /\ UNCHANGED <<callVars, mergeVars, testVars, evVars, pfVars, updVars, histVars>>

SpecStart == InitPump /\ [][NextStart]_vars

\* ------------------------------------------------------------------------
\* the pump beside a caller that unloads and truncates the series
\* ------------------------------------------------------------------------
NextPumpStore ==
    \/ NextPump
    \/ Unload(TheKey) /\ UNCHANGED <<callVars, mergeVars, testVars, ehVars, evVars, pfVars, updVars>>
    \/ Limit(1) /\ UNCHANGED <<callVars, mergeVars, testVars, ehVars, evVars, pfVars, updVars>>

SpecPumpStore == InitPump /\ [][NextPumpStore]_vars

\* ------------------------------------------------------------------------
\* strategies added to and removed from an event handler
\* ------------------------------------------------------------------------
InitStrategies == bars = EmptyMap /\ HarnessIdle

NextStrategies ==
    \/ SetRWMutex /\ UNCHANGED <<callVars, mergeVars, testVars, evVars, pfVars, updVars, histVars>>
    \/ \E st \in StrategyPool :
          AddStrategy(st) /\ UNCHANGED <<callVars, mergeVars, testVars, evVars, pfVars, updVars, histVars>>
    \/ \E st \in StrategyPool :
          RemoveStrategy(st) /\ UNCHANGED <<callVars, mergeVars, testVars, evVars, pfVars, updVars, histVars>>

SpecStrategies == InitStrategies /\ [][NextStrategies]_vars

\* ------------------------------------------------------------------------
\* callbacks subscribed, unsubscribed and invoked by Handle
\* ------------------------------------------------------------------------
\* the event types subscribed to and handled
EventTypes == {"MARKET_BUY", "OTHER"}

\* the callbacks a caller may hold: a function and whether it returns an error
Callbacks == {[fn |-> "f", err |-> FALSE], [fn |-> "g", err |-> TRUE],
              [fn |-> "h", err |-> FALSE]}

InitHandle == bars = EmptyMap /\ HarnessIdle

NextHandle ==
    \/ SetRWMutex /\ UNCHANGED <<callVars, mergeVars, testVars, evVars, pfVars, updVars, histVars>>
    \/ \E ty \in EventTypes : \E cb \in Callbacks :
          Subscribe(ty, cb) /\ UNCHANGED <<callVars, mergeVars, testVars, evVars, pfVars, updVars, histVars>>
    \/ \E ty \in EventTypes : \E cb \in Callbacks :
          Unsubscribe(ty, cb) /\ UNCHANGED <<callVars, mergeVars, testVars, evVars, pfVars, updVars, histVars>>
    \/ \E ty \in EventTypes :
          HandleRead(ty) /\ UNCHANGED <<callVars, mergeVars, testVars, evVars, pfVars, updVars, histVars>>
    \/ HandleCall /\ UNCHANGED <<callVars, mergeVars, testVars, evVars, pfVars, updVars, histVars>>
    \/ HandleReturn /\ UNCHANGED <<callVars, mergeVars, testVars, evVars, pfVars, updVars, histVars>>

SpecHandle == InitHandle /\ [][NextHandle]_vars

\* ------------------------------------------------------------------------
\* Update switched on and off over a store that holds one series
\* ------------------------------------------------------------------------
\* one Update call more than MaxLoops may have its goroutine alive, so that
\* Update(false) can be called while a loop runs
LoopSlots == 1..(MaxLoops + 1)

\* the series the store holds: its newest bar is two periods old at NowStart
LoopSeries == <<MkBar(NowStart - 2, 0), MkBar(NowStart - 3, 0)>>

InitLoop ==
    /\ bars = Put(EmptyMap, TheKey, Entry(LoopSeries, 2))
    /\ C = [cap |-> 1, q |-> <<>>]
    /\ db = [k \in Keys |-> IF k = TheKey THEN LoopSeries ELSE <<>>]
    /\ mu = "unlocked"
    /\ snap = NoSnap
    /\ mref = "none"
    /\ lt = NoLimitTime
    /\ update = FALSE
    /\ maxlimit = DefaultMaxLimit
    /\ now = NowStart
    /\ loops = [i \in LoopSlots |-> NoLoop]
    /\ dl = EmptyBag
    /\ NewBaseStrategy
    /\ NewTester
    /\ NewEventHandler
    /\ EventsIdle
    /\ aRet = NoAdd
    /\ logged = {}
    /\ sRet = NoOrder
    /\ MergeIdle

NextLoop ==
    \/ \E e \in BOOLEAN :
          Update(e) /\ UNCHANGED <<callVars, mergeVars, testVars, ehVars, evVars, pfVars, storeVars>>
    \/ \E i \in LoopSlots :
          LoopIterate(i) /\ UNCHANGED <<callVars, mergeVars, testVars, ehVars, evVars, pfVars, storeVars>>
    \/ \E i \in LoopSlots :
          UpdateReturn(i) /\ UNCHANGED <<callVars, mergeVars, testVars, ehVars, evVars, pfVars, storeVars>>
    \/ \E d \in BagToSet(dl) : DownloadFail(d) /\ UNCHANGED <<callVars, mergeVars, testVars, ehVars, evVars, pfVars>>
    \/ \E d \in BagToSet(dl) : \E f \in Klines(d.k, d.limit) :
          DownloadDone(d, f) /\ UNCHANGED <<callVars, mergeVars, testVars, ehVars, evVars, pfVars>>

SpecLoop == InitLoop /\ [][NextLoop]_vars

\* ------------------------------------------------------------------------
\* update cycles over a store that holds two series, downloads that fail
\* ------------------------------------------------------------------------
\* both keys stored and persisted, their newest bars two periods old
InitCycle ==
    /\ bars = [k \in Keys |-> Entry(LoopSeries, 2)]
    /\ C = [cap |-> 2, q |-> <<>>]
    /\ db = [k \in Keys |-> LoopSeries]
    /\ mu = "unlocked"
    /\ snap = NoSnap
    /\ mref = "none"
    /\ lt = NoLimitTime
    /\ update = FALSE
    /\ maxlimit = DefaultMaxLimit
    /\ now = NowStart
    /\ loops = [i \in 1..MaxLoops |-> NoLoop]
    /\ dl = EmptyBag
    /\ NewBaseStrategy
    /\ NewTester
    /\ NewEventHandler
    /\ EventsIdle
    /\ aRet = NoAdd
    /\ logged = {}
    /\ sRet = NoOrder
    /\ MergeIdle

NextCycle ==
    \/ \E e \in BOOLEAN :
          Update(e) /\ UNCHANGED <<callVars, mergeVars, testVars, ehVars, evVars, pfVars, storeVars>>
    \/ \E i \in 1..MaxLoops :
          LoopIterate(i) /\ UNCHANGED <<callVars, mergeVars, testVars, ehVars, evVars, pfVars, storeVars>>
    \/ \E i \in 1..MaxLoops :
          UpdateReturn(i) /\ UNCHANGED <<callVars, mergeVars, testVars, ehVars, evVars, pfVars, storeVars>>
    \/ Recv /\ UNCHANGED <<callVars, mergeVars, testVars, ehVars, evVars, pfVars, updVars>>
    \/ \E d \in BagToSet(dl) :
          CycleDownloadFail(d) /\ UNCHANGED <<mergeVars, testVars, ehVars, evVars, pfVars>>
    \/ \E d \in BagToSet(dl) : \E f \in Klines(d.k, d.limit) :
          DownloadDone(d, f) /\ UNCHANGED <<callVars, mergeVars, testVars, ehVars, evVars, pfVars>>

SpecCycle == InitCycle /\ [][NextCycle]_vars

\* ------------------------------------------------------------------------
\* Events.Add, Events.Sort and Events.Find on every list of up to MaxEvents
\* ------------------------------------------------------------------------
InitEvents ==
    /\ bars = EmptyMap
    /\ C = [cap |-> 1, q |-> <<>>]
    /\ db = [k \in Keys |-> <<>>]
    /\ mu = "unlocked"
    /\ snap = NoSnap
    /\ mref = "none"
    /\ lt = NoLimitTime
    /\ update = FALSE
    /\ maxlimit = DefaultMaxLimit
    /\ now = NowStart
    /\ loops = [i \in 1..MaxLoops |-> NoLoop]
    /\ dl = EmptyBag
    /\ NewBaseStrategy
    /\ NewTester
    /\ ehmu = "nil"
    /\ running = FALSE
    /\ strategies = <<>>
    /\ pumps = [i \in 1..MaxPumps |-> NoPump]
    /\ events \in EventLists
    /\ handled = <<>>
    /\ crashed = ""
    /\ handlers = NoHandlers
    /\ hcall = NoHandle
    /\ ehCall = NoCall
    /\ drain = NoDrain
    /\ eArg \in EventArgs
    /\ eRet = NoRet
    /\ ePc = "call"
    /\ aRet = NoAdd
    /\ logged = {}
    /\ sRet = NoOrder
    /\ MergeIdle

NextEvents ==
    \/ AddCall /\ UNCHANGED <<callVars, mergeVars, storeVars, updVars, pfVars, testVars,
                              ehmu, running, strategies, pumps, handled, crashed,
                              handlers, hcall, ehCall, drain>>
    \/ SortCall /\ UNCHANGED <<callVars, mergeVars, storeVars, updVars, pfVars, testVars,
                               ehmu, running, strategies, pumps, handled, crashed,
                              handlers, hcall, ehCall, drain>>
    \/ FindCall /\ UNCHANGED <<callVars, mergeVars, storeVars, updVars, pfVars, testVars,
                               ehmu, running, strategies, pumps, handled, crashed,
                              handlers, hcall, ehCall, drain>>

SpecEvents == InitEvents /\ [][NextEvents]_vars

\* the whole program
Next == NextStore \/ NextSnap \/ NextAdd \/ NextAddKey \/ NextUpdate \/ NextSeries \/ NextPortfolio \/ NextTest \/ NextRetest \/ NextPump \/ NextPumpStore \/ NextStart \/ NextStrategies \/ NextHandle \/ NextLoop \/ NextCycle \/ NextTrade \/ NextEvents

Spec == InitStore /\ [][Next]_vars

\* ------------------------------------------------------------------------
\* merge harness: apply merge to every pair of valid series
\* ------------------------------------------------------------------------
MergeInputs == DescSeqs(MergeMaxT, Vals)

InitMerge ==
    /\ StoreIdle
    /\ mOld \in MergeInputs
    /\ mNew \in MergeInputs
    /\ mOut = <<>>
    /\ mPc = "call"

DoMerge ==
    /\ mPc = "call"
    /\ mOut' = merge(mOld, mNew)
    /\ mPc' = "done"
    /\ UNCHANGED <<mOld, mNew>>
    /\ UNCHANGED storeVars
    /\ UNCHANGED updVars
    /\ UNCHANGED pfVars
    /\ UNCHANGED testVars
    /\ UNCHANGED ehVars
    /\ UNCHANGED evVars
    /\ UNCHANGED callVars

NextMerge == DoMerge

SpecMerge == InitMerge /\ [][NextMerge]_vars

BarAt(s, time) == CHOOSE b \in Range(s) : b.t = time

OuterTimes(old, new) ==
    {x \in Times(new) : x > LastBar(old).t \/ x < FirstBar(old).t}

IsPrefix(p, q) == Len(p) <= Len(q) /\ SubSeq(q, 1, Len(p)) = p

\* C1: an Add that installs a key not yet in the store returns without
\* blocking, leaves a channel whose capacity is at least the number of keys,
\* and keeps every token that was queued before the call.
C1_AddNewKeyKeepsTokens ==
    [][\A k \in Keys : \A s \in AddInputs(k) :
          (k \notin DOMAIN bars /\ Add(k, s)) =>
              /\ mu' = "unlocked"
              /\ C'.cap >= Cardinality(DOMAIN bars')
              /\ IsPrefix(C.q, C'.q)]_vars

C4_SnapshotsFrozen ==
    [][/\ (snap.st # "none" /\ snap'.st # "none") => SnapView' = SnapView
       /\ (mref # "none" /\ mref' # "none") => MapView' = MapView]_vars

\* C5: the mapping is read and iterated only under the lock, so it is never
\* written while an iteration of it is in progress.
C5_NoWriteDuringRange ==
    [][lt.todo # {} => bars' = bars]_vars

\* C6: when Update(true) has returned, no download of its first cycle is
\* still to run.
C6_UpdateWaitsForCycle ==
    \A i \in 1..MaxLoops :
        loops[i].ret => \A d \in BagToSet(dl) : d.call # i

Min(a, b) == IF a < b THEN a ELSE b

\* the limit the claim gives a stored symbol
OwnLimit(symbol) ==
    IF Len(bars[symbol].b) = 0 THEN maxlimit
    ELSE Min(maxlimit, TruncDiv(now - LastBar(bars[symbol].b).t, Period(bars[symbol].b)))

\* C7: a cycle calls the downloader for a key only if that key's own limit
\* min(maxlimit, (now - last) / period) exceeds 1, at most once, and requests
\* exactly that many bars.
C7_OwnLimitOncePerKey ==
    [][\A i \in 1..MaxLoops :
          (update /\ LoopIterate(i)) =>
              LET started == dl' (-) dl
              IN  \A d \in BagToSet(started) :
                     /\ d.limit = OwnLimit(d.k)
                     /\ d.limit > 1
                     /\ d.limit <= maxlimit
                     /\ \A e \in BagToSet(started) : e.k = d.k => e = d
                     /\ CopiesIn(d, started) = 1]_vars

\* a fetch for d.k returned f: at least 2 bars, the newest older than
\* now - 2 * period
StaleFetch(d, f) ==
    /\ Len(f) >= 2
    /\ f[1].t < now - 2 * (f[1].t - f[2].t)

\* C8: when a fetch for K returns at least 2 bars whose newest bar is older
\* than now - 2 * period, K is removed from the store, nothing is added or
\* notified, and the persisted bars are unchanged.
C8_StaleFetchEvicts ==
    [][\A d \in BagToSet(dl) : \A f \in Klines(d.k, d.limit) :
          (StaleFetch(d, f) /\ DownloadDone(d, f)) =>
              /\ d.k \notin DOMAIN bars'
              /\ \A k \in DOMAIN bars' : k \in DOMAIN bars /\ bars'[k] = bars[k]
              /\ C' = C
              /\ db' = db]_vars

\* a stale fetch for a stored and persisted key is about to be handled
C8_Witness ==
    \E d \in BagToSet(dl) : \E f \in Klines(d.k, d.limit) :
        /\ StaleFetch(d, f)
        /\ d.k \in DOMAIN bars
        /\ db[d.k] # <<>>
        /\ ENABLED DownloadDone(d, f)

\* ------------------------------------------------------------------------
\* Properties of the portfolio
\* ------------------------------------------------------------------------
\* C9: whenever no position is open, the balance equals the initial balance
\* plus the realised P&L.
C9_BalanceConserved ==
    Positions = NoPositions => Balance = InitialBalance + Stats.RealizedPnL

\* (price - entry) for a long, (entry - price) for a short
Gain(p, price) == IF p.Side THEN price - p.EntryPrice ELSE p.EntryPrice - price

\* C10: the P&L of a position is its gain times units = Size / EntryPrice:
\* the unrealised P&L a position carries, and the P&L a close realises
\* (200 for a long of 2000 opened at 100 and closed at 110).
C10_PnLOnUnits ==
    [][/\ \A sym \in DOMAIN Positions' :
             Positions'[sym].PnL * Positions'[sym].EntryPrice
                = Gain(Positions'[sym], Positions'[sym].Current) * Positions'[sym].Size
       /\ \A sym \in DOMAIN Positions : \A pr \in Prices :
             (ClosePosition(sym, pr) \/ CloseEvent(sym, pr)) =>
                 (Stats'.RealizedPnL - Stats.RealizedPnL) * Positions[sym].EntryPrice
                    = Gain(Positions[sym], pr) * Positions[sym].Size]_vars


\* the OnBar calls Test made for a symbol, in the order it made them
CallsOf(symbol) == SelectSeq(tCalls, LAMBDA c : c.symbol = symbol)

\* no bar missing between the oldest and the newest of a descending series
GapFree(s) == \A i \in 1..(Len(s) - 1) : s[i].t = s[i + 1].t + 1

\* C11: once Test is done, a symbol whose gap-free series of n bars lies
\* inside the window got exactly n OnBar calls, the k-th with the k oldest
\* bars, newest first
C11_OneCallPerBar ==
    tPc = "done" =>
        \A k \in DOMAIN bars :
            LET s == bars[k].b
                n == Len(s)
                calls == CallsOf(k)
            IN  (/\ n > 0
                 /\ GapFree(s)
                 /\ \A i \in 1..n : tWin[1] < s[i].t /\ s[i].t < tWin[2])
                => /\ Len(calls) = n
                   /\ \A j \in 1..Len(calls) : calls[j].bars = SubSeq(s, n - j + 1, n)

\* C12: once Test is done, every stored bar whose time is the start or the
\* end of the window was passed to OnBar as the newest bar of a call
C12_WindowIsClosed ==
    tPc = "done" =>
        \A k \in DOMAIN bars :
            \A i \in 1..Len(bars[k].b) :
                bars[k].b[i].t \in {tWin[1], tWin[2]}
                => \E j \in 1..Len(tCalls) :
                      tCalls[j].symbol = k /\ tCalls[j].bars[1] = bars[k].b[i]


\* C13: Handle is called with an event only when no event with the same
\* symbol, time, price and type is in the sink already
C13_HandledOncePerEvent ==
    [][handled' # handled =>
          ~\E j \in 1..Len(events) : SameKey(events[j], handled'[Len(handled')])]_vars


\* C14: a goroutine of the pump that stands at its select while running is
\* false takes no further notification: it stays there or returns
C14_StoppedPumpTakesNoToken ==
    [][\A i \in 1..MaxPumps :
          (~running /\ pumps[i].pc = "select") => pumps'[i].pc \in {"select", "none"}]_vars

C16_ContextIsCurrentBar ==
    /\ \A i \in 1..MaxPumps :
          (pumps[i].pc = "onbar" /\ pumps[i].todo # <<>>)
          => strat = [symbol |-> pumps[i].symbol, time |-> LastBar(pumps[i].bars).t,
                      price |-> LastBar(pumps[i].bars).v]
    /\ \A j \in 1..Len(tCalls) :
          tCalls[j].ctx = [symbol |-> tCalls[j].symbol, time |-> tCalls[j].bars[1].t,
                           price |-> tCalls[j].bars[1].v]

\* C17: a panic inside OnBar ends neither the program, when the pump called
\* it, nor the test, when Test called it
C17_OnBarFailureCaught == crashed # "OnBar" /\ tPc # "panic"

\* C18: no two registered strategies return the same Name()
C18_NamesUnique ==
    \A i, j \in 1..Len(strategies) : i # j => strategies[i].name # strategies[j].name


\* the symbol, time, price and type of an event
KeyOf(e) == <<e.Symbol, e.Time, e.Price, e.Type>>

\* C19: Add returns true and appends the event exactly when its symbol is not
\* empty, its price is not zero and no event of the list has its symbol, time,
\* price and type; otherwise it returns false and leaves the list as it was
C19_AddAcceptsNewKeys ==
    [][ePc' = "added" =>
          IF /\ eArg.Symbol # NoSymbol
             /\ eArg.Price # 0
             /\ KeyOf(eArg) \notin {KeyOf(events[i]) : i \in 1..Len(events)}
          THEN eRet'.ok /\ events' = Append(events, eArg)
          ELSE ~eRet'.ok /\ events' = events]_vars

\* Add has accepted an event next to one with its symbol, time and price but
\* another type
C19_Witness ==
    /\ ePc = "added"
    /\ eRet.ok
    /\ \E i \in 1..(Len(events) - 1) :
          /\ events[i].Symbol = eArg.Symbol
          /\ events[i].Time = eArg.Time
          /\ events[i].Price = eArg.Price
          /\ events[i].Type # eArg.Type

\* a list sorted as Events.Sort sorts it
Ascending(evs) == \A i \in 1..(Len(evs) - 1) : evs[i].Time <= evs[i + 1].Time

\* C20: on a list sorted ascending, Find(dt) returns an index whose event has
\* time dt, and that event, whenever the list holds one, and -1 otherwise
C20_FindOnSorted ==
    (ePc = "found" /\ Ascending(events)) =>
        IF \E i \in 1..Len(events) : events[i].Time = eArg.Time
        THEN /\ eRet.n \in 0..(Len(events) - 1)
             /\ events[eRet.n + 1].Time = eArg.Time
             /\ eRet.e = events[eRet.n + 1]
        ELSE eRet.n = -1

\* the callbacks Handle is to invoke: those subscribed, up to the first that fails
UpToFailure(callbacks) ==
    IF \E i \in 1..Len(callbacks) : callbacks[i].err
    THEN SubSeq(callbacks, 1, CHOOSE i \in 1..Len(callbacks) :
                                 callbacks[i].err /\ \A j \in 1..(i - 1) : ~callbacks[j].err)
    ELSE callbacks

\* C21: Handle returns; when it does it has invoked the callbacks that were
\* subscribed for the event's type when it was called, in the order of their
\* subscription, up to and including the first that failed, and it returns
\* that failure, or success when none failed or none was subscribed.
C21_HandleInOrder ==
    /\ hcall.pc # "panic"
    /\ hcall.pc = "done" =>
          /\ hcall.invoked = UpToFailure(hcall.subs)
          /\ hcall.ret = IF \E i \in 1..Len(hcall.subs) : hcall.subs[i].err
                         THEN "event handler error" ELSE "nil"

\* C22: Start on a handler that is running returns "already running", spawns
\* no goroutine and leaves the channel alone; Stop on a handler that is not
\* running returns "not running" and changes nothing; Start on a stopped
\* handler and Stop on a running one return nil.
C22_StartStopResults ==
    [][ehCall' # ehCall =>
          IF ehCall'.op = "Start"
          THEN IF running
               THEN /\ ehCall'.err = "already running"
                    /\ UNCHANGED <<running, pumps, C>>
               ELSE ehCall'.err = "nil" /\ running'
          ELSE IF ~running
               THEN /\ ehCall'.err = "not running"
                    /\ UNCHANGED <<running, pumps, strategies, handlers, C>>
               ELSE ehCall'.err = "nil" /\ ~running']_vars

\* the series stored for a key, empty when the key is absent
StoredFor(m, k) == IF k \in DOMAIN m THEN m[k].b ELSE <<>>

\* the series stored, key by key, capacities aside
Series(m) == [k \in DOMAIN m |-> m[k].b]

\* a call of Add has just ended (or blocked)
AddCalled == aRet' # aRet

\* C23: Add for a stored key with a series as long as the stored one and
\* with the same newest bar returns "no new bars" and leaves the stored
\* series, the persisted bars and the channel as they were.
C23_NoNewBars ==
    [][(/\ AddCalled
        /\ aRet'.symbol \in DOMAIN bars
        /\ Len(bars[aRet'.symbol].b) = Len(aRet'.new)
        /\ LastBar(bars[aRet'.symbol].b) = LastBar(aRet'.new))
       => /\ aRet'.err = "no new bars"
          /\ Series(bars') = Series(bars)
          /\ db' = db
          /\ C' = C]_vars

\* an identical series with bars in it was added again and refused, with
\* the first token still queued
C23_Witness ==
    /\ aRet.err = "no new bars"
    /\ Len(aRet.new) >= 2
    /\ aRet.new = StoredFor(bars, aRet.symbol)
    /\ C.q = <<aRet.symbol>>

\* C24 (as stated): after any Add with a series that is not empty, the
\* newest bar stored for the key is at least as late as the newest bar
\* stored before and the newest bar of the series.
C24_NewestAdvances ==
    [][(AddCalled /\ aRet'.new # <<>>)
       => LET k == aRet'.symbol
          IN  /\ LastBar(StoredFor(bars', k)).t >= LastBar(StoredFor(bars, k)).t
              /\ LastBar(StoredFor(bars', k)).t >= LastBar(aRet'.new).t]_vars

\* C24 (amended): after any Add with a series that is not empty, either the
\* key is absent and Add returned "history to short" (the merged series had
\* fewer than two bars), or the newest bar stored for the key is at least
\* as late as the newest bar stored before and the newest bar of the series.
C24_NewestAdvancesOrDropped ==
    [][(AddCalled /\ aRet'.new # <<>>)
       => LET k == aRet'.symbol
          IN  IF aRet'.err = "history to short"
              THEN /\ k \notin DOMAIN bars'
                   /\ 2 > Len(merge(StoredFor(bars, k), aRet'.new))
              ELSE /\ k \in DOMAIN bars'
                   /\ LastBar(bars'[k].b).t >= LastBar(StoredFor(bars, k)).t
                   /\ LastBar(bars'[k].b).t >= LastBar(aRet'.new).t]_vars

\* bars later than the newest stored one were added and are stored now
C24_Witness ==
    /\ aRet.err = "nil"
    /\ aRet.symbol \in DOMAIN bars
    /\ Len(bars[aRet.symbol].b) > Len(aRet.new)
    /\ Len(aRet.new) >= 2
    /\ LastBar(bars[aRet.symbol].b) = LastBar(aRet.new)

\* C25: after an Add of a series that is not empty returns nil, a token for
\* its key is in the channel.
C25_TokenQueued ==
    [][(AddCalled /\ aRet'.new # <<>> /\ aRet'.err = "nil")
       => \E i \in 1..Len(C'.q) : C'.q[i] = aRet'.symbol]_vars

\* C26: when the merge Add makes yields fewer than two bars, the key is
\* absent afterwards, the error is "history too short" and the call has
\* sent no token.
C26_TooShortDropsKey ==
    [][(/\ AddCalled
        /\ aRet'.new # <<>>
        /\ aRet'.err \notin {"no new bars", "blocked"}
        /\ 2 > Len(merge(StoredFor(bars, aRet'.symbol), aRet'.new)))
       => /\ aRet'.symbol \notin DOMAIN bars'
          /\ aRet'.err = "history too short"
          /\ C'.q = C.q]_vars

C28_FailedDownloadIsSkipped ==
    [][\A d \in BagToSet(dl) : CycleDownloadFail(d) =>
          /\ UNCHANGED <<bars, db, C>>
          /\ dl' (+) SetToBag({d}) = dl
          /\ loops' = loops]_vars

\* updating is on, the failure of a download has been logged, and a cycle
\* later than the first has started a download for the same symbol
C28_Witness ==
    /\ update
    /\ \E d \in BagToSet(dl) : d.call = 0 /\ d.k \in logged
    /\ \E i \in 1..MaxLoops : loops[i].pc = "run"

\* the event types that open a position
OpeningTypes == {"MARKET_BUY", "MARKET_SELL", "LIMIT_BUY", "LIMIT_SELL", "STOP_BUY", "STOP_SELL"}

\* C29: BuyEvent and SellEvent open a position for the symbol of the context
\* and take exactly size off the balance when the balance is at least size;
\* when it is less, balance, positions and statistics are unchanged and the
\* call returns no opening event.
C29_OpenIffBalance ==
    [][\A sz \in OrderSizes : \A pr \in Prices :
          (CallBuyEvent(sz, pr) \/ CallSellEvent(sz, pr)) =>
             IF Balance >= sz
             THEN /\ Balance' = Balance - sz
                  /\ strat.symbol \in DOMAIN Positions'
                  /\ Positions'[strat.symbol].Size = sz
                  /\ Positions'[strat.symbol].EntryPrice = pr
                  /\ Positions'[strat.symbol].Side = (sRet'.Type = "MARKET_BUY")
             ELSE /\ UNCHANGED <<Balance, Positions, Stats>>
                  /\ sRet'.Type \notin OpeningTypes]_vars

\* C30: while no open position has a negative unrealised P&L and no position
\* is closed at a loss, a MaxDrawdown of 0 stays 0.
C30_NoLossNoDrawdown ==
    [][(/\ Stats.MaxDrawdown[1] = 0
        /\ Stats.LosingTrades = 0
        /\ Stats'.LosingTrades = 0
        /\ \A x \in DOMAIN Positions : UnrealizedPnL(Positions[x]) >= 0
        /\ \A x \in DOMAIN Positions' : UnrealizedPnL(Positions'[x]) >= 0)
       => Stats'.MaxDrawdown[1] = 0]_vars

\* C31: when a run of Test is done, the events of its result are no more
\* than the OnBar calls of the run, and each has a time inside the window.
C31_EventsOfTheRun ==
    tPc = "done" =>
        /\ Len(tEvents) <= Len(tCalls)
        /\ \A i \in 1..Len(tEvents) :
              tWin[1] <= tEvents[i].Time /\ tEvents[i].Time <= tWin[2]

\* C32: no operation on the event handler ends in the nil pointer
\* dereference of a lock that was never made.
C32_FreshHandlerUsable == crashed # "Lock"

\* the goroutines of Update that have run a cycle and have not exited
ActiveLoops == {i \in DOMAIN loops : loops[i].pc = "run" /\ loops[i].done}

\* C33: while updating is enabled at most one update loop of the store is
\* running its cycles.
C33_OneUpdateLoop == update => Cardinality(ActiveLoops) <= 1

\* C34: a goroutine of the pump that takes a notification is the only
\* goroutine of the pump there is.
C34_OnePumpConsumes ==
    [][\A i \in 1..MaxPumps :
          (pumps[i].pc = "select" /\ pumps'[i].pc = "onbar")
          => \A j \in 1..MaxPumps \ {i} : pumps[j].pc = "none"]_vars

\* C35: a download that ends installs no key: every key stored after it was
\* stored before it.
C35_FetchInstallsNoKey ==
    [][BagCardinality(dl') < BagCardinality(dl) => DOMAIN bars' \subseteq DOMAIN bars]_vars

\* C36: every OnBar call of the pump is given a series of at least two bars.
C36_OnBarGetsSeries ==
    \A i \in 1..MaxPumps :
        (pumps[i].pc = "onbar" /\ pumps[i].todo # <<>>) => Len(pumps[i].bars) >= 2

\* how many times callback cb stands in the list
Count(list, cb) == Cardinality({i \in 1..Len(list) : list[i] = cb})

\* C37: a call of Handle invokes no callback more often than it was
\* subscribed for the event's type when the call started.
C37_InvokedAtMostOnce ==
    \A cb \in Callbacks : Count(hcall.invoked, cb) <= Count(hcall.subs, cb)

\* C38: a step that queues a token for a key has changed the series stored
\* for that key.
C38_TokenMeansChange ==
    [][Len(C'.q) > Len(C.q) =>
          LET k == C'.q[Len(C'.q)]
          IN  StoredFor(bars', k) # StoredFor(bars, k)]_vars

\* positions closed so far plus positions open
Accounted(st, ps) == st.TotalTrades + Cardinality(DOMAIN ps)

\* C39: a BuyEvent or SellEvent that takes its size off the balance adds one
\* to the positions accounted for (closed or open), and no other step
\* changes their number.
C39_OpensAccounted ==
    [][Accounted(Stats', Positions') =
          Accounted(Stats, Positions) + (IF Balance' < Balance THEN 1 ELSE 0)]_vars

\* C40: Start never stands at the receive of its drain loop with nothing to
\* receive.
C40_DrainNeverWaits ==
    ~(drain.pc = "recv" /\ (drain.old \/ Len(C.q) = 0))
====
